---- MODULE Spec2Model ----
(***************************************************************************)
(* Verification model of the authenticated transport substrate of the      *)
(* DingTalk SDK: the access-token cache (src/src/transport/mod.rs), the    *)
(* enterprise service that owns it (src/src/api/async_enterprise.rs), the  *)
(* error classification (src/src/error.rs) and the body-snippet pipeline   *)
(* (src/src/transport/mod.rs, src/src/util/redact.rs).                     *)
(*                                                                         *)
(* Time is counted in whole seconds.  Option<T> is a sequence of length    *)
(* zero (None) or one (Some(v)).                                           *)
(***************************************************************************)
EXTENDS Integers, Sequences, FiniteSets, TLC

VARIABLES
    now,              \* the monotonic clock, Instant::now(), in seconds
    refresh_margin,   \* AccessTokenCache.refresh_margin of the cache under test
    inner,            \* AccessTokenCache.inner: Option<CachedAccessToken>
    ops,              \* the last two cache operations, newest first
    lock,             \* the RwLock around inner: its readers and its writer
    th,               \* per thread: the position inside get/store and its locals
    abs,              \* the entry of the last store that released the write lock
    source,           \* the failure being converted into an Error, if any
    error,            \* the Error value built from it, if any
    cache_access_token, \* Inner.cache_access_token of the built client
    services,         \* the EnterpriseService handles created so far
    caches,           \* the heap of Arc<RwLock<Option<CachedAccessToken>>>
    calls,            \* per thread: its get_access_token call
    snippet_config,   \* Inner.body_snippet: BodySnippetConfig of the client
    body,             \* the response body text received, if any
    outcome,          \* how validate_standard_api_response ended, if it ran
    call,             \* the message send under way or last completed
    fn_input,         \* the arguments a function under test is applied to
    fn_output,        \* the function applied and what it gave, if any
    builder,          \* the ClientBuilder being configured
    client,           \* the Client built from it, if any
    attempts          \* attempts the HTTP collaborator made for the request under way

cacheVars == <<now, refresh_margin, inner, ops>>

lockVars == <<lock, th, abs>>

errVars == <<source, error>>

svcVars == <<cache_access_token, services, caches, calls>>

valVars == <<snippet_config, body, outcome>>

sendVars == <<call>>

fnVars == <<fn_input, fn_output>>

buildVars == <<builder, client, attempts>>

vars ==
    <<cacheVars, lockVars, errVars, svcVars, valVars, sendVars, fnVars,
      buildVars>>

\* What the actions of each specification leave alone.
cacheOthers ==
    <<lockVars, errVars, svcVars, valVars, sendVars, fnVars, buildVars>>

lockOthers ==
    <<errVars, svcVars, valVars, sendVars, fnVars, buildVars>>

errOthers ==
    <<cacheVars, lockVars, svcVars, valVars, sendVars, fnVars, buildVars>>

valOthers ==
    <<cacheVars, lockVars, errVars, svcVars, sendVars, fnVars, buildVars>>

svcOthers ==
    <<inner, ops, lockVars, errVars, valVars, sendVars, fnVars, buildVars>>

----------------------------------------------------------------------------
(* Option<T> *)

None == <<>>

Some(v) == <<v>>

IsSome(o) == Len(o) = 1

Unwrap(o) == o[1]

MaxOf(a, b) == IF a >= b THEN a ELSE b

----------------------------------------------------------------------------
(* Bounds of the model *)

\* Stand-in for i64::MAX, the largest expires_in the token response can carry
\* and the largest number of seconds an Instant can hold.
I64Max == 1000000

\* The clock never runs past this instant.
MaxNow == 90

\* Program constants, src/src/transport/mod.rs:20-21
DEFAULT_ACCESS_TOKEN_TTL == 7200

MIN_ACCESS_TOKEN_TTL == 30

\* Instant is a count of seconds in a signed 64-bit field.
InstantMax == I64Max

\* Duration is a count of seconds in an unsigned 64-bit field.
DurationMax == 2 * I64Max + 1

\* The steps by which the clock advances between operations.
TickSteps == {29, 30}

\* expires_in of a token response: absent, negative, zero, below the floor,
\* at and above it, the default, and the largest 64-bit value.
ExpiresInValues ==
    {None, Some(-1), Some(0), Some(1), Some(29), Some(30), Some(31), Some(60),
     Some(I64Max)}

\* token_refresh_margin as a client may configure it (any Duration).
RefreshMargins == {0, 1, 29, 30, 60, 7199, 7200, DurationMax}

Tokens == {"tokenA", "tokenB"}

----------------------------------------------------------------------------
(* AccessTokenCache, src/src/transport/mod.rs *)

\* Instant::checked_add: None when the sum is not representable.
checked_add(instant, duration) ==
    IF instant + duration <= InstantMax THEN Some(instant + duration) ELSE None

\* normalize_token_ttl, mutated: the floor is not applied.
normalize_token_ttl_nofloor(expires_in_seconds) ==
    IF IsSome(expires_in_seconds) /\ Unwrap(expires_in_seconds) > 0
    THEN Unwrap(expires_in_seconds)
    ELSE DEFAULT_ACCESS_TOKEN_TTL

normalize_token_ttl(expires_in_seconds) ==
    IF IsSome(expires_in_seconds) /\ Unwrap(expires_in_seconds) > 0
    THEN MaxOf(Unwrap(expires_in_seconds), MIN_ACCESS_TOKEN_TTL)
    ELSE DEFAULT_ACCESS_TOKEN_TTL

\* The value store() writes, mutated: an overflowing sum saturates at the
\* largest Instant.
StoredEntry_saturating(token, expires_in_seconds, instant) ==
    LET ttl == normalize_token_ttl(expires_in_seconds)
        sum == checked_add(instant, ttl)
    IN  Some([token |-> token,
              expires_at |-> IF IsSome(sum) THEN Unwrap(sum) ELSE InstantMax])

\* The value store() writes: Some(CachedAccessToken { token, expires_at }),
\* expires_at = now.checked_add(ttl).unwrap_or_else(Instant::now).
StoredEntry(token, expires_in_seconds, instant) ==
    LET ttl == normalize_token_ttl(expires_in_seconds)
        sum == checked_add(instant, ttl)
    IN  Some([token |-> token,
              expires_at |-> IF IsSome(sum) THEN Unwrap(sum) ELSE instant])

\* AccessTokenCache::get, mutated: the comparison is not strict.
CacheGet_nonstrict(cached, margin, instant) ==
    IF ~IsSome(cached) THEN None
    ELSE LET refresh_at == checked_add(instant, margin)
         IN  IF ~IsSome(refresh_at) THEN None
             ELSE IF Unwrap(refresh_at) <= Unwrap(cached).expires_at
                  THEN Some(Unwrap(cached).token)
                  ELSE None

\* AccessTokenCache::get, mutated: the refresh margin is not added.
CacheGet_nomargin(cached, margin, instant) ==
    IF ~IsSome(cached) THEN None
    ELSE IF instant < Unwrap(cached).expires_at
         THEN Some(Unwrap(cached).token)
         ELSE None

\* AccessTokenCache::get on the guarded value `cached`, the clock read `instant`.
CacheGet(cached, margin, instant) ==
    IF ~IsSome(cached) THEN None
    ELSE LET refresh_at == checked_add(instant, margin)
         IN  IF ~IsSome(refresh_at) THEN None
             ELSE IF Unwrap(refresh_at) < Unwrap(cached).expires_at
                  THEN Some(Unwrap(cached).token)
                  ELSE None

----------------------------------------------------------------------------
(* CacheSpec: one AccessTokenCache used by one caller.                      *)

NoOp == [op |-> "none", at |-> 0, token |-> "", expires_in |-> None,
         result |-> None]

\* The variables of the service model, at rest.
SvcUnused ==
    /\ cache_access_token = TRUE
    /\ services = <<>>
    /\ caches = <<>>
    /\ calls = <<>>

\* BodySnippetConfig::default()
DefaultBodySnippetConfig == [enabled |-> TRUE, max_bytes |-> 4096]

\* No message send has been started.
NoSend ==
    [pc |-> "idle", service |-> "none", n |-> 0, token_requests |-> 0,
     business_requests |-> 0, cached |-> <<>>, sent |-> <<>>,
     response |-> <<>>, result |-> <<>>]

\* The variables of the message-send model, at rest.
SendUnused == call = NoSend

\* No builder is under test.
BuildUnused ==
    /\ builder = <<>>
    /\ client = <<>>
    /\ attempts = 0

\* No function is under test.
FnUnused ==
    /\ fn_input = <<>>
    /\ fn_output = <<>>

\* The variables of the validation model, at rest.
ValUnused ==
    /\ snippet_config = DefaultBodySnippetConfig
    /\ body = <<>>
    /\ outcome = <<>>

\* The variables of the error model, at rest.
ErrUnused ==
    /\ source = None
    /\ error = None

\* The variables of the lock-level model, at rest.
LockUnused ==
    /\ lock = [readers |-> {}, writer |-> None]
    /\ th = <<>>
    /\ abs = None

\* AccessTokenCache::new(refresh_margin): inner = None.
CacheInit ==
    /\ now = 1
    /\ refresh_margin \in RefreshMargins
    /\ inner = None
    /\ ops = <<NoOp, NoOp>>
    /\ LockUnused
    /\ ErrUnused
    /\ SvcUnused
    /\ ValUnused
    /\ SendUnused
    /\ FnUnused
    /\ BuildUnused

\* cache.store(token, expires_in_seconds)
Store(token, expires_in_seconds) ==
    /\ inner' = StoredEntry(token, expires_in_seconds, now)
    /\ ops' = <<[op |-> "store", at |-> now, token |-> token,
                 expires_in |-> expires_in_seconds, result |-> None],
                ops[1]>>
    /\ UNCHANGED <<now, refresh_margin, cacheOthers>>

\* cache.get()
Get ==
    /\ ops' = <<[op |-> "get", at |-> now, token |-> "", expires_in |-> None,
                 result |-> CacheGet(inner, refresh_margin, now)],
                ops[1]>>
    /\ UNCHANGED <<now, refresh_margin, inner, cacheOthers>>

\* The clock advances.
Tick(d) ==
    /\ now + d <= MaxNow
    /\ now' = now + d
    /\ UNCHANGED <<refresh_margin, inner, ops, cacheOthers>>

CacheNext ==
    \/ \E t \in Tokens, e \in ExpiresInValues : Store(t, e)
    \/ Get
    \/ \E d \in TickSteps : Tick(d)

CacheSpec == CacheInit /\ [][CacheNext]_vars

----------------------------------------------------------------------------
(* LockSpec: one AccessTokenCache shared by concurrent callers.  get and    *)
(* store are split at every access to the lock and to the guarded value;    *)
(* the assignment *guard = Some(CachedAccessToken { token, expires_at })    *)
(* writes the two fields one after the other.  The lock is never poisoned:  *)
(* nothing can panic while a guard is held.                                 *)

Threads == {"t1", "t2"}

\* Calls each thread makes.
MaxCalls == 2

LockMargins == {0, 30}

LockExpiresIn == {Some(30), Some(60)}

\* RwLock::read is granted, mutated: readers do not wait for the writer.
ReadLockFree_nowait(l) == TRUE

\* RwLock::read is granted: no writer holds the lock.
ReadLockFree(l) == l.writer = None

\* RwLock::write is granted: nobody holds the lock.
WriteLockFree(l) == l.readers = {} /\ l.writer = None

Idle == [pc |-> "idle", op |-> "none", calls |-> 0, at |-> 0, entry |-> None,
         snap |-> None, seen |-> None, result |-> None]

LockInit ==
    /\ now = 1
    /\ refresh_margin \in LockMargins
    /\ inner = None
    /\ ops = <<NoOp, NoOp>>
    /\ lock = [readers |-> {}, writer |-> None]
    /\ th = [t \in Threads |-> Idle]
    /\ abs = None
    /\ ErrUnused
    /\ SvcUnused
    /\ ValUnused
    /\ SendUnused
    /\ FnUnused
    /\ BuildUnused

\* get: let now = Instant::now();
GetBegin(t) ==
    /\ th[t].pc = "idle"
    /\ th[t].calls < MaxCalls
    /\ th' = [th EXCEPT ![t] = [Idle EXCEPT !.pc = "get_lock", !.op = "get",
                                            !.calls = th[t].calls, !.at = now]]
    /\ UNCHANGED <<cacheVars, lock, abs, lockOthers>>

\* get: let guard = self.inner.read().ok()?;
GetReadLock(t) ==
    /\ th[t].pc = "get_lock"
    /\ ReadLockFree(lock)
    /\ lock' = [lock EXCEPT !.readers = @ \cup {t}]
    /\ th' = [th EXCEPT ![t].pc = "get_check", ![t].snap = abs]
    /\ UNCHANGED <<cacheVars, abs, lockOthers>>

\* get: guard.as_ref()?, now.checked_add(margin)?, refresh_at < cached.expires_at
GetCheck(t) ==
    /\ th[t].pc = "get_check"
    /\ LET refresh_at == checked_add(th[t].at, refresh_margin)
           fresh == /\ IsSome(inner)
                    /\ IsSome(refresh_at)
                    /\ Unwrap(refresh_at) < Unwrap(inner).expires_at
       IN  th' = [th EXCEPT
                    ![t].pc = IF fresh THEN "get_clone" ELSE "get_unlock",
                    ![t].seen = IF fresh THEN Some(Unwrap(inner).expires_at)
                                ELSE None]
    /\ UNCHANGED <<cacheVars, lock, abs, lockOthers>>

\* get: Some(cached.token.clone())
GetClone(t) ==
    /\ th[t].pc = "get_clone"
    /\ th' = [th EXCEPT ![t].pc = "get_unlock",
                        ![t].result = Some(Unwrap(inner).token)]
    /\ UNCHANGED <<cacheVars, lock, abs, lockOthers>>

\* get: the guard is dropped and get returns.
GetUnlock(t) ==
    /\ th[t].pc = "get_unlock"
    /\ lock' = [lock EXCEPT !.readers = @ \ {t}]
    /\ th' = [th EXCEPT ![t].pc = "idle", ![t].calls = @ + 1]
    /\ UNCHANGED <<cacheVars, abs, lockOthers>>

\* store: ttl and expires_at are computed before the lock is taken.  Every
\* store carries its own token.
StoreBegin(t, e) ==
    /\ th[t].pc = "idle"
    /\ th[t].calls < MaxCalls
    /\ th' = [th EXCEPT ![t] =
                [Idle EXCEPT !.pc = "store_lock", !.op = "store",
                             !.calls = th[t].calls, !.at = now,
                             !.entry = StoredEntry(<<t, th[t].calls>>, e, now)]]
    /\ UNCHANGED <<cacheVars, lock, abs, lockOthers>>

\* store: if let Ok(mut guard) = self.inner.write()
StoreWriteLock(t) ==
    /\ th[t].pc = "store_lock"
    /\ WriteLockFree(lock)
    /\ lock' = [lock EXCEPT !.writer = Some(t)]
    /\ th' = [th EXCEPT ![t].pc = "store_token"]
    /\ UNCHANGED <<cacheVars, abs, lockOthers>>

\* store: *guard = Some(..), the token field is written.
StoreToken(t) ==
    /\ th[t].pc = "store_token"
    /\ inner' = Some([token |-> Unwrap(th[t].entry).token,
                      expires_at |-> IF IsSome(inner)
                                     THEN Unwrap(inner).expires_at ELSE 0])
    /\ th' = [th EXCEPT ![t].pc = "store_expiry"]
    /\ UNCHANGED <<now, refresh_margin, ops, lock, abs, lockOthers>>

\* store: *guard = Some(..), the expires_at field is written.
StoreExpiry(t) ==
    /\ th[t].pc = "store_expiry"
    /\ inner' = th[t].entry
    /\ th' = [th EXCEPT ![t].pc = "store_unlock"]
    /\ UNCHANGED <<now, refresh_margin, ops, lock, abs, lockOthers>>

\* store: the guard is dropped and store returns.
StoreUnlock(t) ==
    /\ th[t].pc = "store_unlock"
    /\ lock' = [lock EXCEPT !.writer = None]
    /\ abs' = th[t].entry
    /\ th' = [th EXCEPT ![t].pc = "idle", ![t].calls = @ + 1]
    /\ UNCHANGED <<cacheVars, lockOthers>>

\* The clock advances while the threads run.
LockTick ==
    /\ now + MIN_ACCESS_TOKEN_TTL <= MaxNow
    /\ now' = now + MIN_ACCESS_TOKEN_TTL
    /\ UNCHANGED <<refresh_margin, inner, ops, lockVars, lockOthers>>

LockNext ==
    \/ \E t \in Threads : GetBegin(t)
    \/ \E t \in Threads : GetReadLock(t)
    \/ \E t \in Threads : GetCheck(t)
    \/ \E t \in Threads : GetClone(t)
    \/ \E t \in Threads : GetUnlock(t)
    \/ \E t \in Threads, e \in LockExpiresIn : StoreBegin(t, e)
    \/ \E t \in Threads : StoreWriteLock(t)
    \/ \E t \in Threads : StoreToken(t)
    \/ \E t \in Threads : StoreExpiry(t)
    \/ \E t \in Threads : StoreUnlock(t)
    \/ LockTick

LockSpec == LockInit /\ [][LockNext]_vars

----------------------------------------------------------------------------
(* Error, src/src/error.rs                                                  *)

\* reqx::ErrorCode: the five conditions the conversion names as retryable,
\* HttpStatus, and conditions it does not name.
ReqxErrorCodes ==
    {"Timeout", "DeadlineExceeded", "Transport", "RetryBudgetExhausted",
     "CircuitOpen", "HttpStatus", "InvalidUri", "Deserialize", "Tls"}

\* source.status_code(): none, or any u16 the response carried.
StatusCodes ==
    {200, 302, 400, 401, 403, 404, 408, 409, 412, 428, 429, 430, 499, 500,
     503, 599, 600}

\* source.retry_after(now), in seconds.
RetryAfters == {None, Some(5)}

RequestIds == {None, Some("req-1")}

\* A reqx::Error as the conversion reads it.
ReqxErrors ==
    [code : ReqxErrorCodes,
     status : {None} \cup {Some(c) : c \in StatusCodes},
     request_id : RequestIds,
     retry_after : RetryAfters]

\* Business error codes: the two transient ones, their neighbours, others.
ApiCodes == {-1, 1, 130100, 130101, 130102, 130103, 310000, 400001}

\* from: the retryable flag, mutated: every HTTP client error is retryable too.
reqx_retryable_4xx(code, status) ==
    \/ code \in {"Timeout", "DeadlineExceeded", "Transport",
                 "RetryBudgetExhausted", "CircuitOpen"}
    \/ /\ code = "HttpStatus"
       /\ IsSome(status)
       /\ Unwrap(status) >= 400 /\ Unwrap(status) <= 599

\* from: let retryable = match source.code() { .. }
reqx_retryable(code, status) ==
    CASE code \in {"Timeout", "DeadlineExceeded", "Transport",
                   "RetryBudgetExhausted", "CircuitOpen"} -> TRUE
      [] code = "HttpStatus" ->
            /\ IsSome(status)
            /\ \/ Unwrap(status) = 429
               \/ Unwrap(status) >= 500 /\ Unwrap(status) <= 599
      [] OTHER -> FALSE

\* source.to_string()
reqx_to_string(src) == <<"reqx error", src.code>>

HttpError(status, request_id) ==
    [status |-> status, message |-> None, request_id |-> request_id,
     body_snippet |-> None]

TransportError(src, status) ==
    [status |-> status, message |-> Some(reqx_to_string(src)),
     request_id |-> src.request_id, body_snippet |-> None,
     retry_after |-> src.retry_after,
     retryable |-> reqx_retryable(src.code, src.status)]

\* impl From<reqx::Error> for Error, mutated: 412 is not in the table.
FromReqx_no412(src) ==
    IF IsSome(src.status)
    THEN LET status == Unwrap(src.status)
             e == HttpError(status, src.request_id)
         IN  CASE status \in {401, 403} -> [variant |-> "Auth", error |-> e]
               [] status = 404 -> [variant |-> "NotFound", error |-> e]
               [] status = 409 -> [variant |-> "Conflict", error |-> e]
               [] status = 429 -> [variant |-> "RateLimited", error |-> e,
                                   retry_after |-> src.retry_after]
               [] OTHER -> [variant |-> "Transport",
                            error |-> TransportError(src, Some(status))]
    ELSE [variant |-> "Transport", error |-> TransportError(src, None)]

\* impl From<reqx::Error> for Error
FromReqx(src) ==
    IF IsSome(src.status)
    THEN LET status == Unwrap(src.status)
             e == HttpError(status, src.request_id)
         IN  CASE status \in {401, 403} -> [variant |-> "Auth", error |-> e]
               [] status = 404 -> [variant |-> "NotFound", error |-> e]
               [] status \in {409, 412} -> [variant |-> "Conflict", error |-> e]
               [] status = 429 -> [variant |-> "RateLimited", error |-> e,
                                   retry_after |-> src.retry_after]
               [] OTHER -> [variant |-> "Transport",
                            error |-> TransportError(src, Some(status))]
    ELSE [variant |-> "Transport", error |-> TransportError(src, None)]

\* transport::api_error: Error::Api { code, message, request_id, body_snippet }
api_error(code, message, request_id, body_snippet) ==
    [variant |-> "Api", code |-> code, message |-> message,
     request_id |-> request_id, body_snippet |-> body_snippet]

\* The variants built where a local computation fails.
LocalErrors ==
    {[variant |-> "Serialization"], [variant |-> "Timestamp"],
     [variant |-> "Signature"],
     [variant |-> "InvalidConfig", message |-> "invalid base url"]}

\* Error::kind
kind(e) == e.variant

\* Error::status
status_of(e) ==
    CASE e.variant \in {"Auth", "NotFound", "Conflict"} -> Some(e.error.status)
      [] e.variant = "RateLimited" -> Some(e.error.status)
      [] e.variant = "Transport" -> e.error.status
      [] OTHER -> None

\* Error::request_id
request_id_of(e) ==
    CASE e.variant = "Api" -> e.request_id
      [] e.variant \in {"Auth", "NotFound", "Conflict", "RateLimited",
                        "Transport"} -> e.error.request_id
      [] OTHER -> None

\* Error::body_snippet
body_snippet_of(e) ==
    CASE e.variant = "Api" -> e.body_snippet
      [] e.variant \in {"Auth", "NotFound", "Conflict", "RateLimited",
                        "Transport"} -> e.error.body_snippet
      [] OTHER -> None

\* Error::is_retryable, mutated: only the first transient code is listed.
is_retryable_onecode(e) ==
    CASE e.variant = "RateLimited" -> TRUE
      [] e.variant = "Transport" -> e.error.retryable
      [] e.variant = "Api" -> e.code = 130101
      [] OTHER -> FALSE

\* Error::is_retryable
is_retryable(e) ==
    CASE e.variant = "RateLimited" -> TRUE
      [] e.variant = "Transport" -> e.error.retryable
      [] e.variant = "Api" -> e.code \in {130101, 130102}
      [] OTHER -> FALSE

\* Error::retry_after
retry_after_of(e) ==
    CASE e.variant = "RateLimited" -> e.retry_after
      [] e.variant = "Transport" -> e.error.retry_after
      [] OTHER -> None

----------------------------------------------------------------------------
(* ErrorSpec: every failure of a call is turned into one Error value.       *)

ErrorInit ==
    /\ source = None
    /\ error = None
    /\ now = 1
    /\ refresh_margin = 0
    /\ inner = None
    /\ ops = <<NoOp, NoOp>>
    /\ LockUnused
    /\ SvcUnused
    /\ ValUnused
    /\ SendUnused
    /\ FnUnused
    /\ BuildUnused

\* The HTTP collaborator reports a failure: `?` converts it with From.
TransportFails(src) ==
    /\ source' = Some([origin |-> "reqx", reqx |-> src])
    /\ error' = Some(FromReqx(src))
    /\ UNCHANGED errOthers

\* A decoded payload carries a business error code.
ApiFails(code, request_id) ==
    /\ source' = Some([origin |-> "api", code |-> code])
    /\ error' = Some(api_error(code, "errmsg", request_id, None))
    /\ UNCHANGED errOthers

\* A local step (encoding, clock, signing, configuration) fails.
LocalFails(e) ==
    /\ source' = Some([origin |-> "local"])
    /\ error' = Some(e)
    /\ UNCHANGED errOthers

ErrorNext ==
    \/ \E src \in ReqxErrors : TransportFails(src)
    \/ \E code \in ApiCodes, r \in RequestIds : ApiFails(code, r)
    \/ \E e \in LocalErrors : LocalFails(e)

ErrorSpec == ErrorInit /\ [][ErrorNext]_vars

----------------------------------------------------------------------------
(* Spec: a built client, the EnterpriseService handles made from it and     *)
(* their clones, and callers running get_access_token on them.              *)
(* src/src/client/async_client.rs, src/src/api/async_enterprise.rs (the     *)
(* blocking service, src/src/api/blocking_enterprise.rs, is the same code   *)
(* without the await).  get and store are atomic here (see LockSpec).       *)

\* Handles (enterprise() calls and clones) created in a run.
MaxServices == 3

\* get_access_token calls started in a run, over all threads.
MaxTotalCalls == 2

\* token_refresh_margin of the built client.
SvcMargins == {0, 30}

\* expires_in of a token response.
SvcExpiresIn == {None, Some(60)}

\* Failures of the HTTP collaborator during token issuance.
SvcReqxErrors ==
    {[code |-> "HttpStatus", status |-> Some(401), request_id |-> Some("req-1"),
      retry_after |-> None]}

\* What comes back from GET /gettoken: a transport failure, or a decoded
\* GetTokenResponse { errcode, errmsg, access_token, expires_in }.
TokenResponses(token) ==
    {[failed |-> TRUE, reqx |-> src] : src \in SvcReqxErrors}
    \cup {[failed |-> FALSE, errcode |-> 40089, errmsg |-> "bad appkey",
           access_token |-> None, expires_in |-> None]}
    \cup {[failed |-> FALSE, errcode |-> 0, errmsg |-> "ok",
           access_token |-> None, expires_in |-> None]}
    \cup {[failed |-> FALSE, errcode |-> 0, errmsg |-> "ok",
           access_token |-> Some(token), expires_in |-> e] : e \in SvcExpiresIn}

\* EnterpriseService::new, mutated: the cache is created whatever the flag.
AfterEnterprise_alwayscache ==
    [services |-> Append(services, [cache |-> Some(Len(caches) + 1),
                                    root |-> Len(services) + 1]),
     caches |-> Append(caches, None)]

\* Client::enterprise / EnterpriseService::new: the handles and the heap after
\* the call.  access_token_cache = cache_access_token_enabled().then(|| new).
AfterEnterprise ==
    IF cache_access_token
    THEN [services |-> Append(services, [cache |-> Some(Len(caches) + 1),
                                         root |-> Len(services) + 1]),
          caches |-> Append(caches, None)]
    ELSE [services |-> Append(services, [cache |-> None,
                                         root |-> Len(services) + 1]),
          caches |-> caches]

\* EnterpriseService::clone, mutated: the cached value is copied, not shared.
AfterClone_deepcopy(h) ==
    IF IsSome(services[h].cache)
    THEN [services |-> Append(services, [cache |-> Some(Len(caches) + 1),
                                         root |-> services[h].root]),
          caches |-> Append(caches, caches[Unwrap(services[h].cache)])]
    ELSE [services |-> Append(services, services[h]), caches |-> caches]

\* #[derive(Clone)] on EnterpriseService and AccessTokenCache: the Arc is
\* cloned, so the new handle points at the same guarded value.
AfterClone(h) == [services |-> Append(services, services[h]), caches |-> caches]

NoCall == [pc |-> "idle", n |-> 0, h |-> 0, requests |-> 0, result |-> None]

Ok(v) == [ok |-> TRUE, value |-> v]

Err(e) == [ok |-> FALSE, error |-> e]

\* Calls started so far.
TotalCalls ==
    LET started(t) == calls[t].n + (IF calls[t].pc = "idle" THEN 0 ELSE 1)
    IN  started("t1") + started("t2")

\* The guarded value behind handle h, None when the handle has no cache.
Entry(h) ==
    IF IsSome(services[h].cache) THEN caches[Unwrap(services[h].cache)] ELSE None

\* The token the server issues in answer to the request thread t has in
\* flight: every issued token is a new one, named after the call it answers
\* (thread, call number, handle).
IssuedToken(t) == [for |-> <<t, calls[t].n>>, via |-> calls[t].h]

\* ClientBuilder::build
Init ==
    /\ now = 1
    /\ refresh_margin \in SvcMargins
    /\ cache_access_token \in BOOLEAN
    /\ services = <<>>
    /\ caches = <<>>
    /\ calls = [t \in Threads |-> NoCall]
    /\ inner = None
    /\ ops = <<NoOp, NoOp>>
    /\ LockUnused
    /\ ErrUnused
    /\ ValUnused
    /\ SendUnused
    /\ FnUnused
    /\ BuildUnused

\* client.enterprise(appkey, appsecret, robot_code)
Enterprise ==
    /\ Len(services) < MaxServices
    /\ services' = AfterEnterprise.services
    /\ caches' = AfterEnterprise.caches
    /\ UNCHANGED <<now, refresh_margin, cache_access_token, calls, svcOthers>>

\* service.clone()
CloneService(h) ==
    /\ Len(services) < MaxServices
    /\ services' = AfterClone(h).services
    /\ caches' = AfterClone(h).caches
    /\ UNCHANGED <<now, refresh_margin, cache_access_token, calls, svcOthers>>

\* get_access_token on handle h, up to the await of the issuance request: a
\* fresh cached token is returned at once, otherwise GET /gettoken is sent.
GetAccessToken(t, h) ==
    /\ calls[t].pc = "idle"
    /\ TotalCalls < MaxTotalCalls
    /\ LET cached == IF IsSome(services[h].cache)
                     THEN CacheGet(Entry(h), refresh_margin, now)
                     ELSE None
       IN  calls' = [calls EXCEPT ![t] =
              IF IsSome(cached)
              THEN [pc |-> "idle", n |-> calls[t].n + 1, h |-> h,
                    requests |-> 0, result |-> Some(Ok(Unwrap(cached)))]
              ELSE [pc |-> "gettoken_sent", n |-> calls[t].n, h |-> h,
                    requests |-> 1, result |-> None]]
    /\ UNCHANGED <<now, refresh_margin, cache_access_token, services, caches,
                   svcOthers>>

\* get_access_token after the await, mutated: the token is stored only in
\* an empty cache, and the caller returns what the cache holds.
GetAccessTokenReturn_keepfirst(t, r) ==
    /\ calls[t].pc = "gettoken_sent"
    /\ LET h == calls[t].h
           shared == IsSome(services[h].cache) /\ IsSome(Entry(h))
           res == IF r.failed THEN Err(FromReqx(r.reqx))
                  ELSE IF r.errcode # 0
                       THEN Err(api_error(r.errcode, r.errmsg, None, None))
                  ELSE IF ~IsSome(r.access_token)
                       THEN Err(api_error(-1, "No access token returned",
                                          None, None))
                  ELSE IF shared THEN Ok(Unwrap(Entry(h)).token)
                  ELSE Ok(Unwrap(r.access_token))
       IN  /\ calls' = [calls EXCEPT ![t].pc = "idle", ![t].n = @ + 1,
                                     ![t].result = Some(res)]
           /\ caches' = IF res.ok /\ IsSome(services[h].cache) /\ ~shared
                        THEN [caches EXCEPT ![Unwrap(services[h].cache)] =
                                 StoredEntry(res.value, r.expires_in, now)]
                        ELSE caches
    /\ UNCHANGED <<now, refresh_margin, cache_access_token, services,
                   svcOthers>>

\* get_access_token after the await, on the answer r to its request: `?` on
\* the transport result, the errcode check, the access_token check,
\* cache.store and the return.
GetAccessTokenReturn(t, r) ==
    /\ calls[t].pc = "gettoken_sent"
    /\ LET h == calls[t].h
           res == IF r.failed THEN Err(FromReqx(r.reqx))
                  ELSE IF r.errcode # 0
                       THEN Err(api_error(r.errcode, r.errmsg, None, None))
                  ELSE IF ~IsSome(r.access_token)
                       THEN Err(api_error(-1, "No access token returned",
                                          None, None))
                  ELSE Ok(Unwrap(r.access_token))
       IN  /\ calls' = [calls EXCEPT ![t].pc = "idle", ![t].n = @ + 1,
                                     ![t].result = Some(res)]
           /\ caches' = IF res.ok /\ IsSome(services[h].cache)
                        THEN [caches EXCEPT ![Unwrap(services[h].cache)] =
                                 StoredEntry(res.value, r.expires_in, now)]
                        ELSE caches
    /\ UNCHANGED <<now, refresh_margin, cache_access_token, services,
                   svcOthers>>

\* The clock advances by the lifetime of a token.
SvcTick ==
    /\ now + 60 <= MaxNow
    /\ now' = now + 60
    /\ UNCHANGED <<refresh_margin, svcVars, svcOthers>>

Next ==
    \/ Enterprise
    \/ \E h \in DOMAIN services : CloneService(h)
    \/ \E t \in Threads, h \in DOMAIN services : GetAccessToken(t, h)
    \/ \E t \in Threads : \E r \in TokenResponses(IssuedToken(t)) :
          GetAccessTokenReturn(t, r)
    \/ SvcTick

Spec == Init /\ [][Next]_vars

----------------------------------------------------------------------------
(* ValidateSpec: a response body arrives and validate_standard_api_response *)
(* classifies it.  src/src/transport/mod.rs (121-148) and                   *)
(* src/src/util/redact.rs.                                                  *)
(*                                                                          *)
(* A Rust String is a sequence of chars.  A char is named by the TLA+       *)
(* string that holds it, or by its code point ("U+00E9") when it is not     *)
(* ASCII.  Offsets and lengths are counted in UTF-8 bytes, as str::len,     *)
(* str::find and String::replace_range count them.                          *)

\* How a call ends: it returns a value, or it panics and returns nothing.
Returned(v) == [panicked |-> FALSE, value |-> v]

Panicked == [panicked |-> TRUE]

\* char::len_utf8
len_utf8(c) ==
    CASE c \in {"U+00E9", "U+0130", "U+0307"} -> 2
      [] c \in {"U+4E2D", "U+212A"} -> 3
      [] OTHER -> 1

\* str::len: the length in bytes.
RECURSIVE str_len(_)
str_len(s) == IF s = <<>> THEN 0 ELSE len_utf8(Head(s)) + str_len(Tail(s))

\* The number of leading chars of s that take up exactly the first i bytes;
\* defined when i is a char boundary of s.
chars_before(s, i) == CHOOSE k \in 0..Len(s) : str_len(SubSeq(s, 1, k)) = i

\* str::is_char_boundary
is_char_boundary(s, i) == \E k \in 0..Len(s) : str_len(SubSeq(s, 1, k)) = i

\* The lowercase mapping of one char: U+0130 (capital I with dot above) maps
\* to two chars, U+212A (the Kelvin sign) to the ASCII k.
char_to_lowercase(c) ==
    CASE c = "T" -> <<"t">>
      [] c = "O" -> <<"o">>
      [] c = "K" -> <<"k">>
      [] c = "E" -> <<"e">>
      [] c = "N" -> <<"n">>
      [] c = "U+0130" -> <<"i", "U+0307">>
      [] c = "U+212A" -> <<"k">>
      [] OTHER -> <<c>>

\* str::to_lowercase
RECURSIVE to_lowercase(_)
to_lowercase(s) ==
    IF s = <<>> THEN <<>> ELSE char_to_lowercase(Head(s)) \o to_lowercase(Tail(s))

\* The least element of a non-empty set of numbers.
MinOf(S) == CHOOSE x \in S : \A y \in S : x <= y

\* str::find: the byte offset of the first match, if there is one.
find(haystack, needle) ==
    LET hits == {k \in 1..(Len(haystack) - Len(needle) + 1) :
                    SubSeq(haystack, k, k + Len(needle) - 1) = needle}
    IN  IF hits = {} THEN None
        ELSE Some(str_len(SubSeq(haystack, 1, MinOf(hits) - 1)))

\* String::replace_range(start..end, replace_with): it panics unless both ends
\* lie on char boundaries.
replace_range(s, start, end, replace_with) ==
    IF ~is_char_boundary(s, start) \/ ~is_char_boundary(s, end)
    THEN Panicked
    ELSE Returned(SubSeq(s, 1, chars_before(s, start)) \o replace_with
                  \o SubSeq(s, chars_before(s, end) + 1, Len(s)))

SENSITIVE_KEYS ==
    << <<"t", "o", "k", "e", "n">>,
       <<"a", "c", "c", "e", "s", "s", "_", "t", "o", "k", "e", "n">>,
       <<"a", "p", "p", "s", "e", "c", "r", "e", "t">>,
       <<"a", "u", "t", "h", "o", "r", "i", "z", "a", "t", "i", "o", "n">>,
       <<"c", "o", "o", "k", "i", "e">>,
       <<"p", "a", "s", "s", "w", "d">>,
       <<"p", "a", "s", "s", "w", "o", "r", "d">>,
       <<"s", "e", "c", "r", "e", "t">> >>

\* "=<redacted>"
REDACTED == <<"=", "<", "r", "e", "d", "a", "c", "t", "e", "d", ">">>

\* "...(truncated)"
TRUNCATED ==
    <<".", ".", ".", "(", "t", "r", "u", "n", "c", "a", "t", "e", "d", ")">>

\* redact_text, the loop `for key in SENSITIVE_KEYS` from the i-th key on.
RECURSIVE redact_from(_, _)
redact_from(output, i) ==
    IF i > Len(SENSITIVE_KEYS) THEN Returned(output)
    ELSE LET key == SENSITIVE_KEYS[i]
             lower == to_lowercase(output)
             index == find(lower, key)
         IN  IF ~IsSome(index) THEN redact_from(output, i + 1)
             ELSE LET start == Unwrap(index) + str_len(key)
                      end == IF start + 32 <= str_len(output)
                             THEN start + 32 ELSE str_len(output)
                  IN  IF start < end
                      THEN LET r == replace_range(output, start, end, REDACTED)
                           IN  IF r.panicked THEN Panicked
                               ELSE redact_from(r.value, i + 1)
                      ELSE redact_from(output, i + 1)

\* redact_text
redact_text(input) == redact_from(input, 1)

\* truncate_snippet: while !input.is_char_boundary(end) { end -= 1; }
RECURSIVE truncate_end(_, _)
truncate_end(input, end) ==
    IF is_char_boundary(input, end) THEN end ELSE truncate_end(input, end - 1)

\* truncate_snippet, mutated: the cut is made at the char boundary after
\* max_bytes when max_bytes is inside a char.
truncate_snippet_ceil(input, max_bytes) ==
    IF str_len(input) <= max_bytes THEN input
    ELSE LET k == CHOOSE j \in 0..Len(input) :
                     /\ str_len(SubSeq(input, 1, j)) >= max_bytes
                     /\ \A i \in 0..(j - 1) : str_len(SubSeq(input, 1, i)) < max_bytes
         IN  SubSeq(input, 1, k) \o TRUNCATED

\* truncate_snippet
truncate_snippet(input, max_bytes) ==
    IF str_len(input) <= max_bytes THEN input
    ELSE SubSeq(input, 1, chars_before(input, truncate_end(input, max_bytes))) \o TRUNCATED

\* body_snippet_for_error, mutated: the truncated body is kept as it is.
body_snippet_for_error_raw(text, body_snippet) ==
    IF ~body_snippet.enabled THEN Returned(None)
    ELSE Returned(Some(truncate_snippet(text, body_snippet.max_bytes)))

\* body_snippet_for_error
body_snippet_for_error(text, body_snippet) ==
    IF ~body_snippet.enabled THEN Returned(None)
    ELSE LET snippet == truncate_snippet(text, body_snippet.max_bytes)
             redacted == redact_text(snippet)
         IN  IF redacted.panicked THEN Panicked
             ELSE Returned(Some(redacted.value))

(* serde_json::from_str::<StandardApiResponse>.  The JSON texts read here   *)
(* have no whitespace, no escapes, no arrays: the bodies below have none.   *)

Fail == [ok |-> FALSE]

Parsed(v, n) == [ok |-> TRUE, value |-> v, next |-> n]

DigitChars == <<"0", "1", "2", "3", "4", "5", "6", "7", "8", "9">>

Digit == {DigitChars[i] : i \in 1..10}

DigitValue(c) == (CHOOSE i \in 1..10 : DigitChars[i] = c) - 1

\* The char at position i of s, "EOF" past the end.
At(s, i) == IF i >= 1 /\ i <= Len(s) THEN s[i] ELSE "EOF"

\* The first position from i on that holds no digit.
RECURSIVE DigitsEnd(_, _)
DigitsEnd(s, i) == IF At(s, i) \in Digit THEN DigitsEnd(s, i + 1) ELSE i

\* The value of the digits s[i..j-1]; anything beyond the i64 range reads as
\* I64Max + 2.
RECURSIVE DecimalValue(_, _, _, _)
DecimalValue(s, i, j, acc) ==
    IF i >= j THEN acc
    ELSE LET v == acc * 10 + DigitValue(s[i])
         IN  DecimalValue(s, i + 1, j, IF v > I64Max + 1 THEN I64Max + 2 ELSE v)

\* A JSON string starting at the quote s[i].
parse_string(s, i) ==
    LET ends == {j \in (i + 1)..Len(s) : s[j] = "\""}
    IN  IF ends = {} THEN Fail
        ELSE Parsed(SubSeq(s, i + 1, MinOf(ends) - 1), MinOf(ends) + 1)

\* A JSON number starting at s[i]: an integer keeps its value, a number with
\* a fraction or an exponent (and -0) is a float.
parse_number(s, i) ==
    LET neg == At(s, i) = "-"
        a == IF neg THEN i + 1 ELSE i
        b == DigitsEnd(s, a)
        hasFrac == At(s, b) = "."
        c == IF hasFrac THEN DigitsEnd(s, b + 1) ELSE b
        hasExp == At(s, c) \in {"e", "E"}
        d0 == IF At(s, c + 1) = "-" THEN c + 2 ELSE c + 1
        d == IF hasExp THEN DigitsEnd(s, d0) ELSE c
        m == DecimalValue(s, a, b, 0)
    IN  IF b = a \/ (At(s, a) = "0" /\ b > a + 1) THEN Fail
        ELSE IF hasFrac /\ c = b + 1 THEN Fail
        ELSE IF hasExp /\ d = d0 THEN Fail
        ELSE IF hasFrac \/ hasExp \/ (neg /\ m = 0)
             THEN Parsed([kind |-> "float"], d)
        ELSE Parsed([kind |-> "int", n |-> IF neg THEN -m ELSE m], d)

\* One of the words null, true, false starting at s[i].
parse_ident(s, i, word, v) ==
    IF i + Len(word) - 1 <= Len(s) /\ SubSeq(s, i, i + Len(word) - 1) = word
    THEN Parsed(v, i + Len(word))
    ELSE Fail

RECURSIVE parse_value(_, _), parse_members(_, _, _)

\* The members of an object from the key at s[i] on, acc being those read.
parse_members(s, i, acc) ==
    IF At(s, i) # "\"" THEN Fail
    ELSE LET k == parse_string(s, i)
         IN  IF ~k.ok THEN Fail
             ELSE IF At(s, k.next) # ":" THEN Fail
             ELSE LET v == parse_value(s, k.next + 1)
                  IN  IF ~v.ok THEN Fail
                      ELSE LET read == Append(acc, [key |-> k.value,
                                                   value |-> v.value])
                           IN  CASE At(s, v.next) = "," ->
                                        parse_members(s, v.next + 1, read)
                                 [] At(s, v.next) = "}" ->
                                        Parsed([kind |-> "object",
                                                members |-> read], v.next + 1)
                                 [] OTHER -> Fail

\* A JSON value starting at s[i].
parse_value(s, i) ==
    CASE At(s, i) = "\"" ->
            LET r == parse_string(s, i)
            IN  IF r.ok THEN Parsed([kind |-> "string", s |-> r.value], r.next)
                ELSE Fail
      [] At(s, i) \in Digit \cup {"-"} -> parse_number(s, i)
      [] At(s, i) = "n" ->
            parse_ident(s, i, <<"n", "u", "l", "l">>, [kind |-> "null"])
      [] At(s, i) = "t" ->
            parse_ident(s, i, <<"t", "r", "u", "e">>, [kind |-> "bool"])
      [] At(s, i) = "f" ->
            parse_ident(s, i, <<"f", "a", "l", "s", "e">>, [kind |-> "bool"])
      [] At(s, i) = "{" ->
            IF At(s, i + 1) = "}"
            THEN Parsed([kind |-> "object", members |-> <<>>], i + 2)
            ELSE parse_members(s, i + 1, <<>>)
      [] OTHER -> Fail

\* "errcode" and "errmsg", the fields of StandardApiResponse.
ERRCODE == <<"e", "r", "r", "c", "o", "d", "e">>

ERRMSG == <<"e", "r", "r", "m", "s", "g">>

\* A value decoded into the target type.
Decoded(v) == [ok |-> TRUE, value |-> v]

\* Option<i64> from a JSON value.
option_i64(v) ==
    CASE v.kind = "null" -> Decoded(None)
      [] v.kind = "int" ->
            IF v.n >= -I64Max - 1 /\ v.n <= I64Max
            THEN Decoded(Some(v.n)) ELSE Fail
      [] OTHER -> Fail

\* Option<String> from a JSON value.
option_string(v) ==
    CASE v.kind = "null" -> Decoded(None)
      [] v.kind = "string" -> Decoded(Some(v.s))
      [] OTHER -> Fail

\* The derived Deserialize of StandardApiResponse over the members of an
\* object: a field given twice or with a value of the wrong type is an error,
\* a missing Option field is None, other fields are ignored.
visit_map(members) ==
    LET at(name) == {k \in 1..Len(members) : members[k].key = name}
        errcode == IF at(ERRCODE) = {} THEN Decoded(None)
                   ELSE option_i64(members[MinOf(at(ERRCODE))].value)
        errmsg == IF at(ERRMSG) = {} THEN Decoded(None)
                  ELSE option_string(members[MinOf(at(ERRMSG))].value)
    IN  IF Cardinality(at(ERRCODE)) > 1 \/ Cardinality(at(ERRMSG)) > 1 THEN Fail
        ELSE IF ~errcode.ok \/ ~errmsg.ok THEN Fail
        ELSE Decoded([errcode |-> errcode.value, errmsg |-> errmsg.value])

\* serde_json::from_str::<StandardApiResponse>(body)
from_str(text) ==
    LET r == parse_value(text, 1)
    IN  IF ~r.ok THEN Fail
        ELSE IF r.next # Len(text) + 1 THEN Fail
        ELSE IF r.value.kind # "object" THEN Fail
        ELSE visit_map(r.value.members)

\* "unknown dingtalk api error"
UNKNOWN_API_ERROR ==
    <<"u", "n", "k", "n", "o", "w", "n", " ", "d", "i", "n", "g", "t", "a", "l",
      "k", " ", "a", "p", "i", " ", "e", "r", "r", "o", "r">>

\* validate_standard_api_response
validate_standard_api_response(text, body_snippet) ==
    LET response == from_str(text)
    IN  IF /\ response.ok
           /\ IsSome(response.value.errcode)
           /\ Unwrap(response.value.errcode) # 0
        THEN LET errcode == Unwrap(response.value.errcode)
                 message == IF IsSome(response.value.errmsg)
                            THEN Unwrap(response.value.errmsg)
                            ELSE UNKNOWN_API_ERROR
                 snippet == body_snippet_for_error(text, body_snippet)
             IN  IF snippet.panicked THEN Panicked
                 ELSE Returned(Err(api_error(errcode, message, None,
                                             snippet.value)))
        ELSE Returned(Ok("unit"))

(* The response bodies of the model *)

\* The decimal digits of a natural number.
RECURSIVE Digits(_)
Digits(n) ==
    IF n < 10 THEN <<DigitChars[n + 1]>>
    ELSE Append(Digits(n \div 10), DigitChars[(n % 10) + 1])

Quoted(s) == <<"\"">> \o s \o <<"\"">>

Member(name, text) == Quoted(name) \o <<":">> \o text

RECURSIVE Joined(_)
Joined(members) ==
    IF Len(members) = 0 THEN <<>>
    ELSE IF Len(members) = 1 THEN members[1]
    ELSE members[1] \o <<",">> \o Joined(Tail(members))

Object(members) == <<"{">> \o Joined(members) \o <<"}">>

RECURSIVE Pad(_)
Pad(n) == IF n = 0 THEN <<>> ELSE <<"x">> \o Pad(n - 1)

NULL == <<"n", "u", "l", "l">>

\* The JSON texts tried as the value of errcode.
ErrcodeTexts ==
    {Digits(0), Digits(310000), <<"-", "1">>, Digits(I64Max),
     Digits(I64Max + 1), NULL, Quoted(<<"1">>), <<"1", ".", "5">>}

\* Spellings of a sensitive key in a message: plain, capitalised, with the
\* Kelvin sign for its k, and a second key.
KeySpellings ==
    {<<"t", "o", "k", "e", "n">>, <<"T", "o", "k", "e", "n">>,
     <<"t", "o", "U+212A", "e", "n">>, <<"s", "e", "c", "r", "e", "t">>}

\* Messages that hold a key: what precedes it, the key, a run of ASCII and the
\* char that ends up at the far end of the 32-byte window.
KeyMessages ==
    {prefix \o key \o Pad(n) \o last :
        prefix \in {<<>>, <<"U+0130">>},
        key \in KeySpellings,
        n \in {0, 29, 30, 31, 32},
        last \in {<<>>, <<"U+00E9">>, <<"U+4E2D">>}}

\* Messages that hold no key.
PlainMessages ==
    {<<"i", "n", "v", "a", "l", "i", "d">>, <<"o", "k">>,
     <<"i", "n", "v", "U+00E9", "l", "i", "d", "e">>}

\* The JSON texts tried as the value of errmsg.
ErrmsgTexts == {Quoted(m) : m \in PlainMessages} \cup {NULL, <<"5">>}

\* Response bodies: the two fields in either order, one of them alone, none,
\* one given twice, an unknown field, and texts that are not JSON objects.
Bodies ==
    {Object(<<Member(ERRCODE, c), Member(ERRMSG, m)>>) :
        c \in ErrcodeTexts, m \in ErrmsgTexts}
    \cup {Object(<<Member(ERRCODE, c), Member(ERRMSG, Quoted(m))>>) :
            c \in {Digits(0), Digits(310000)}, m \in KeyMessages}
    \cup {Object(<<Member(ERRMSG, Quoted(<<"o", "k">>)), Member(ERRCODE, c)>>) :
            c \in ErrcodeTexts}
    \cup {Object(<<Member(ERRCODE, c)>>) : c \in ErrcodeTexts}
    \cup {Object(<<Member(ERRMSG, Quoted(<<"o", "k">>))>>), Object(<<>>)}
    \cup {Object(<<Member(ERRCODE, Digits(1)), Member(ERRCODE, Digits(2))>>)}
    \cup {Object(<<Member(<<"i", "d">>, Object(<<Member(ERRCODE, Digits(0))>>)),
                   Member(ERRCODE, Digits(88))>>)}
    \cup {<<"<", "h", "t", "m", "l", ">">>, <<"{", "\"", "e", "r", "r">>,
          Digits(7), Object(<<Member(ERRCODE, Digits(1))>>) \o <<"}">>}

\* The BodySnippetConfig values the client is built with.
SnippetConfigs ==
    {DefaultBodySnippetConfig, [enabled |-> FALSE, max_bytes |-> 64]} \cup
    [enabled : {TRUE}, max_bytes : {0, 32, 38, 64}]

\* A client built with some BodySnippetConfig; no response yet.
ValidateInit ==
    /\ snippet_config \in SnippetConfigs
    /\ body = None
    /\ outcome = None
    /\ now = 1
    /\ refresh_margin = 0
    /\ inner = None
    /\ ops = <<NoOp, NoOp>>
    /\ LockUnused
    /\ ErrUnused
    /\ SvcUnused
    /\ SendUnused
    /\ FnUnused
    /\ BuildUnused

\* let body = response.text_lossy();
Respond(text) ==
    /\ body = None
    /\ body' = Some(text)
    /\ UNCHANGED <<snippet_config, outcome>>
    /\ UNCHANGED valOthers

\* validate_standard_api_response(&body, body_snippet)
Validate ==
    /\ IsSome(body)
    /\ outcome = None
    /\ outcome' = Some(validate_standard_api_response(Unwrap(body),
                                                      snippet_config))
    /\ UNCHANGED <<snippet_config, body>>
    /\ UNCHANGED valOthers

ValidateNext ==
    \/ \E text \in Bodies : Respond(text)
    \/ Validate

ValidateSpec == ValidateInit /\ [][ValidateNext]_vars

----------------------------------------------------------------------------
(* SendSpec: message sends, one after the other, on one webhook service and *)
(* one enterprise service of a built client.                                *)
(* src/src/api/async_webhook.rs (31-47), src/src/api/async_enterprise.rs    *)
(* (54-86, 150-170); the blocking services are the same code without the    *)
(* awaits.  The HTTP collaborator (reqx) is outside the repository: for a    *)
(* response with a non-2xx status it either hands the response over or      *)
(* reports the status as a failure, and both are possible here.             *)

\* Message sends started in a run.
MaxSends == 2

\* HTTP statuses of the responses to the business request.
SendStatuses == {200, 401, 500}

\* Bodies of the responses to the business request: success, a business
\* error, one whose message holds a key, one on which redact_text panics, one
\* without errmsg, and a body that is not JSON.
SendBodies ==
    {Object(<<Member(ERRCODE, Digits(0)), Member(ERRMSG, Quoted(<<"o", "k">>))>>),
     Object(<<Member(ERRCODE, Digits(310000)),
              Member(ERRMSG, Quoted(<<"i", "n", "v", "a", "l", "i", "d">>))>>),
     Object(<<Member(ERRCODE, Digits(310000)),
              Member(ERRMSG, Quoted(<<"t", "o", "k", "e", "n">> \o Pad(3)))>>),
     Object(<<Member(ERRCODE, Digits(310000)),
              Member(ERRMSG, Quoted(<<"t", "o", "k", "e", "n">> \o Pad(31)
                                    \o <<"U+00E9">>))>>),
     Object(<<Member(ERRCODE, Digits(88))>>),
     <<"<", "h", "t", "m", "l", ">">>}

\* A failure of the collaborator that carries no response.
SendReqxErrors ==
    {[code |-> "Timeout", status |-> None, request_id |-> None,
      retry_after |-> None]}

\* The failure the collaborator reports for a response status.
HttpStatusError(status) ==
    [code |-> "HttpStatus", status |-> Some(status), request_id |-> None,
     retry_after |-> None]

\* What `.send().await` gives for the business request: a failure without a
\* response, a response handed over, or a non-2xx response reported as a
\* failure.
BusinessOutcomes ==
    {[failed |-> TRUE, answered |-> FALSE, reqx |-> e] : e \in SendReqxErrors}
    \cup {[failed |-> FALSE, answered |-> TRUE, status |-> s, body |-> b] :
            s \in SendStatuses, b \in SendBodies}
    \cup {[failed |-> TRUE, answered |-> TRUE, status |-> s, body |-> b,
           reqx |-> HttpStatusError(s)] :
            s \in SendStatuses \ {200}, b \in SendBodies}

\* send_message / send_enterprise_message after the await:
\*   let response = ... .send().await?;
\*   let body = response.text_lossy();
\*   validate_standard_api_response(&body)?;
\*   Ok(body)
AfterSend(x) ==
    IF x.failed THEN Returned(Err(FromReqx(x.reqx)))
    ELSE LET v == validate_standard_api_response(x.body, snippet_config)
         IN  IF v.panicked THEN Panicked
             ELSE IF v.value.ok THEN Returned(Ok(x.body))
             ELSE v

\* get_access_token after the await: `?`, the errcode check and the
\* access_token check on the answer r.
IssuanceResult(r) ==
    IF r.failed THEN Err(FromReqx(r.reqx))
    ELSE IF r.errcode # 0 THEN Err(api_error(r.errcode, r.errmsg, None, None))
    ELSE IF ~IsSome(r.access_token)
         THEN Err(api_error(-1, "No access token returned", None, None))
    ELSE Ok(Unwrap(r.access_token))

\* The texts that impl Display writes for an error, in order: the message of
\* Error::Api; the message and the request id of an HttpError or a
\* TransportError, when present.  body_snippet is in none of the formats.
DisplayTexts(e) ==
    CASE e.variant = "Api" -> <<e.message>>
      [] e.variant \in {"Auth", "NotFound", "Conflict", "RateLimited",
                        "Transport"} -> e.error.message \o e.error.request_id
      [] OTHER -> <<>>

\* What the sends leave alone.
sendOthers ==
    <<now, refresh_margin, ops, lockVars, errVars, services, caches, calls,
      body, outcome, snippet_config, cache_access_token, fnVars, buildVars>>

\* A built client with its BodySnippetConfig and cache_access_token; the
\* enterprise service's cache, if it has one, is empty.
SendInit ==
    /\ call = NoSend
    /\ snippet_config \in
          {DefaultBodySnippetConfig, [enabled |-> FALSE, max_bytes |-> 64]}
    /\ cache_access_token \in BOOLEAN
    /\ refresh_margin \in SvcMargins
    /\ now = 1
    /\ inner = None
    /\ ops = <<NoOp, NoOp>>
    /\ services = <<>>
    /\ caches = <<>>
    /\ calls = <<>>
    /\ body = None
    /\ outcome = None
    /\ LockUnused
    /\ ErrUnused
    /\ FnUnused
    /\ BuildUnused

\* WebhookService::send_message up to the await: build_webhook_url reads the
\* clock when a secret is configured, then the request is sent.
WebhookSend(secret, clock_ok) ==
    /\ call.pc = "idle"
    /\ call.n < MaxSends
    /\ call' = IF secret /\ ~clock_ok
               THEN [pc |-> "idle", service |-> "webhook", n |-> call.n + 1,
                     token_requests |-> 0, business_requests |-> 0,
                     cached |-> None, sent |-> <<>>, response |-> None,
                     result |-> Some(Returned(Err([variant |-> "Timestamp"])))]
               ELSE [pc |-> "awaiting", service |-> "webhook", n |-> call.n,
                     token_requests |-> 0, business_requests |-> 1,
                     cached |-> None,
                     sent |-> <<[to |-> "business", token |-> <<"webhook", 0>>]>>,
                     response |-> None, result |-> None]
    /\ UNCHANGED <<inner, sendOthers>>

\* send_enterprise_message up to its first await, mutated: the cache is
\* read but GET /gettoken is sent whatever it holds.
EnterpriseSend_refetch ==
    /\ call.pc = "idle"
    /\ call.n < MaxSends
    /\ LET cached == IF cache_access_token
                     THEN CacheGet(inner, refresh_margin, now)
                     ELSE None
       IN  call' = [pc |-> "awaiting_token", service |-> "enterprise",
                    n |-> call.n, token_requests |-> 1,
                    business_requests |-> 0, cached |-> cached,
                    sent |-> <<[to |-> "gettoken"]>>,
                    response |-> None, result |-> None]
    /\ UNCHANGED <<inner, sendOthers>>

\* EnterpriseService::send_enterprise_message up to its first await: with a
\* fresh cached token the business request is sent at once, otherwise
\* GET /gettoken is.
EnterpriseSend ==
    /\ call.pc = "idle"
    /\ call.n < MaxSends
    /\ LET cached == IF cache_access_token
                     THEN CacheGet(inner, refresh_margin, now)
                     ELSE None
       IN  call' = IF IsSome(cached)
                   THEN [pc |-> "awaiting", service |-> "enterprise",
                         n |-> call.n, token_requests |-> 0,
                         business_requests |-> 1, cached |-> cached,
                         sent |-> <<[to |-> "business",
                                     token |-> Unwrap(cached)]>>,
                         response |-> None, result |-> None]
                   ELSE [pc |-> "awaiting_token", service |-> "enterprise",
                         n |-> call.n, token_requests |-> 1,
                         business_requests |-> 0, cached |-> None,
                         sent |-> <<[to |-> "gettoken"]>>,
                         response |-> None, result |-> None]
    /\ UNCHANGED <<inner, sendOthers>>

\* get_access_token returns inside send_enterprise_message: a failure ends
\* the send, a token is stored (when there is a cache) and the business
\* request is sent.
TokenReturn(r) ==
    /\ call.pc = "awaiting_token"
    /\ LET res == IssuanceResult(r)
       IN  /\ inner' = IF res.ok /\ cache_access_token
                       THEN StoredEntry(res.value, r.expires_in, now)
                       ELSE inner
           /\ call' = IF res.ok
                      THEN [call EXCEPT
                              !.pc = "awaiting",
                              !.business_requests = 1,
                              !.sent = Append(@, [to |-> "business",
                                                  token |-> res.value])]
                      ELSE [call EXCEPT !.pc = "idle", !.n = @ + 1,
                                        !.result = Some(Returned(res))]
    /\ UNCHANGED sendOthers

\* The business request is answered, mutated: a failed send drops the
\* cached token.
BusinessReturn_evict(x) ==
    /\ call.pc = "awaiting"
    /\ call' = [call EXCEPT
                  !.pc = "idle",
                  !.n = @ + 1,
                  !.response = IF x.answered
                               THEN Some([status |-> x.status, body |-> x.body,
                                          handed |-> ~x.failed])
                               ELSE None,
                  !.result = Some(AfterSend(x))]
    /\ inner' = IF x.failed THEN None ELSE inner
    /\ UNCHANGED sendOthers

\* The business request is answered and the send returns.
BusinessReturn(x) ==
    /\ call.pc = "awaiting"
    /\ call' = [call EXCEPT
                  !.pc = "idle",
                  !.n = @ + 1,
                  !.response = IF x.answered
                               THEN Some([status |-> x.status, body |-> x.body,
                                          handed |-> ~x.failed])
                               ELSE None,
                  !.result = Some(AfterSend(x))]
    /\ UNCHANGED <<inner, sendOthers>>

\* The clock advances between two sends by the lifetime of a token.
SendTick ==
    /\ call.pc = "idle"
    /\ now + 60 <= MaxNow
    /\ now' = now + 60
    /\ UNCHANGED <<inner, call, refresh_margin, ops, lockVars, errVars,
                   services, caches, calls, body, outcome, snippet_config,
                   cache_access_token, fnVars, buildVars>>

SendNext ==
    \/ SendTick
    \/ \E secret \in BOOLEAN, clock_ok \in BOOLEAN : WebhookSend(secret, clock_ok)
    \/ EnterpriseSend
    \/ \E r \in TokenResponses(<<"token", call.n>>) : TokenReturn(r)
    \/ \E x \in BusinessOutcomes : BusinessReturn(x)

SendSpec == SendInit /\ [][SendNext]_vars

----------------------------------------------------------------------------
(* RedactSpec: redact_text and truncate_snippet applied to a text.          *)
(* src/src/util/redact.rs                                                   *)

\* What the functions under test leave alone.
fnOthers ==
    <<cacheVars, lockVars, errVars, svcVars, valVars, sendVars, buildVars>>

\* The variables of the cache model, at rest.
CacheUnused ==
    /\ now = 1
    /\ refresh_margin = 0
    /\ inner = None
    /\ ops = <<NoOp, NoOp>>

\* access_token":"abcdef123456"
TOKEN_PAIR ==
    <<"a", "c", "c", "e", "s", "s", "_", "t", "o", "k", "e", "n", "\"", ":",
      "\"", "a", "b", "c", "d", "e", "f", "1", "2", "3", "4", "5", "6", "\"">>

\* Texts given to redact_text and truncate_snippet: messages with a key in
\* several spellings and with one- and multi-byte chars at the far end of the
\* window, the token pair alone and inside a longer text, texts with other
\* keys and text well beyond the window, and texts without a key.
RedactTexts ==
    KeyMessages
    \cup {TOKEN_PAIR,
          <<"{", "\"", "i", "d", "\"", ":", "7", ",", "\"">> \o TOKEN_PAIR
              \o <<",", "\"", "n", "\"", ":", "1", "}">> \o Pad(30),
          <<"c", "o", "o", "k", "i", "e">> \o Pad(40),
          <<"a", "p", "p", "s", "e", "c", "r", "e", "t", "=">> \o Pad(40),
          <<"p", "a", "s", "s", "w", "o", "r", "d", "=", "U+4E2D", "U+4E2D">>,
          <<"T", "O", "K", "E", "N">>,
          <<"i", "n", "v", "a", "l", "i", "d">>,
          <<"i", "n", "v", "U+00E9", "l", "i", "d", "e">>,
          <<"U+4E2D", "U+4E2D", "U+00E9">>,
          <<>>}

\* The max_bytes given to truncate_snippet.
MaxBytesArgs == {0, 1, 36, 37, 4096}

\* A text and a max_bytes are chosen; nothing has been applied.
RedactInit ==
    /\ fn_input \in [text : RedactTexts, max_bytes : MaxBytesArgs]
    /\ fn_output = None
    /\ CacheUnused
    /\ LockUnused
    /\ ErrUnused
    /\ SvcUnused
    /\ ValUnused
    /\ SendUnused
    /\ BuildUnused

\* redact_text(&text)
ApplyRedact ==
    /\ fn_output = None
    /\ fn_output' = Some([fn |-> "redact_text",
                          result |-> redact_text(fn_input.text)])
    /\ UNCHANGED <<fn_input, fnOthers>>

\* truncate_snippet(&text, max_bytes)
ApplyTruncate ==
    /\ fn_output = None
    /\ fn_output' = Some([fn |-> "truncate_snippet",
                          result |-> Returned(truncate_snippet(fn_input.text,
                                                               fn_input.max_bytes))])
    /\ UNCHANGED <<fn_input, fnOthers>>

RedactNext == ApplyRedact \/ ApplyTruncate

RedactSpec == RedactInit /\ [][RedactNext]_vars

----------------------------------------------------------------------------
(* UrlSpec: normalize_base_url applied to a text and endpoint_url applied   *)
(* to the normalised base and a list of segments.  src/src/util/url.rs.     *)
(* Url::parse, Url::set_path and PathSegmentsMut::push are the url crate's; *)
(* they are modelled for the texts below: a scheme, "//" and a host after a *)
(* special scheme, a path of ASCII letters and slashes, and at most one "?" *)
(* and one "#".                                                             *)

LowerLetters ==
    {"a", "b", "c", "d", "e", "f", "g", "h", "i", "j", "k", "l", "m", "n", "o",
     "p", "q", "r", "s", "t", "u", "v", "w", "x", "y", "z"}

\* The first position from `from` on at which s holds a char of set, or
\* Len(s) + 1.
FirstOf(s, set, from) ==
    LET at == {i \in from..Len(s) : s[i] \in set}
    IN  IF at = {} THEN Len(s) + 1 ELSE MinOf(at)

\* str::trim, for the space.
RECURSIVE trim_start(_)
trim_start(s) ==
    IF s # <<>> /\ Head(s) = " " THEN trim_start(Tail(s)) ELSE s

RECURSIVE trim_end(_)
trim_end(s) ==
    IF s # <<>> /\ s[Len(s)] = " " THEN trim_end(SubSeq(s, 1, Len(s) - 1)) ELSE s

trim(s) == trim_end(trim_start(s))

\* str::trim_end_matches, mutated: one match is removed.
trim_end_matches_once(s, c) ==
    IF s # <<>> /\ s[Len(s)] = c THEN SubSeq(s, 1, Len(s) - 1) ELSE s

\* str::trim_end_matches(c): every trailing c is removed.
RECURSIVE trim_end_matches(_, _)
trim_end_matches(s, c) ==
    IF s # <<>> /\ s[Len(s)] = c
    THEN trim_end_matches(SubSeq(s, 1, Len(s) - 1), c)
    ELSE s

\* The path, the query and the fragment of what follows the authority (or
\* the scheme of a URL without one).
PathQueryFragment(tail) ==
    LET hash == FirstOf(tail, {"#"}, 1)
        mark == FirstOf(tail, {"?"}, 1)
        pathEnd == IF mark < hash THEN mark ELSE hash
    IN  [path |-> SubSeq(tail, 1, pathEnd - 1),
         query |-> IF mark < hash THEN Some(SubSeq(tail, mark + 1, hash - 1))
                   ELSE None,
         fragment |-> IF hash <= Len(tail)
                      THEN Some(SubSeq(tail, hash + 1, Len(tail)))
                      ELSE None]

\* Url::parse: no scheme is an error (a relative URL without a base), so is
\* an empty host; a URL without "//" after the scheme cannot be a base; the
\* empty path after a host is "/".
Url_parse(raw) ==
    LET colon == FirstOf(raw, {":"}, 1)
        scheme == SubSeq(raw, 1, colon - 1)
        rest == SubSeq(raw, colon + 1, Len(raw))
    IN  IF colon > Len(raw) \/ scheme = <<>>
           \/ \E i \in 1..Len(scheme) : scheme[i] \notin LowerLetters
        THEN Fail
        ELSE IF Len(rest) >= 2 /\ rest[1] = "/" /\ rest[2] = "/"
        THEN LET after == SubSeq(rest, 3, Len(rest))
                 hostEnd == FirstOf(after, {"/", "?", "#"}, 1)
                 t == PathQueryFragment(SubSeq(after, hostEnd, Len(after)))
             IN  IF hostEnd = 1 THEN Fail
                 ELSE Decoded([scheme |-> scheme,
                               cannot_be_a_base |-> FALSE,
                               host |-> Some(SubSeq(after, 1, hostEnd - 1)),
                               path |-> IF t.path = <<>> THEN <<"/">> ELSE t.path,
                               query |-> t.query,
                               fragment |-> t.fragment])
        ELSE LET t == PathQueryFragment(rest)
             IN  Decoded([scheme |-> scheme, cannot_be_a_base |-> TRUE,
                          host |-> None, path |-> t.path, query |-> t.query,
                          fragment |-> t.fragment])

\* Error::InvalidConfig { message, source }
InvalidConfig(message) == [variant |-> "InvalidConfig", message |-> message]

\* normalize_base_url
normalize_base_url(value) ==
    LET raw == trim(value)
        parsed == Url_parse(raw)
    IN  IF ~parsed.ok THEN Err(InvalidConfig("Invalid base_url"))
        ELSE LET url == parsed.value
             IN  IF url.cannot_be_a_base
                 THEN Err(InvalidConfig("base_url must be hierarchical"))
                 ELSE IF IsSome(url.query) \/ IsSome(url.fragment)
                 THEN Err(InvalidConfig(
                          "base_url must not contain query or fragment"))
                 ELSE IF url.path # <<"/">>
                 THEN LET path == trim_end_matches(url.path, "/")
                      IN  IF path = <<>> THEN Ok([url EXCEPT !.path = <<"/">>])
                          ELSE Ok([url EXCEPT !.path = path])
                 ELSE Ok(url)

\* The percent-encoding of one char of a pushed path segment: the path
\* segment set of the url crate, which holds the slash and the percent sign.
encode_path_segment_char(c) ==
    CASE c = "/" -> <<"%", "2", "F">>
      [] c = "%" -> <<"%", "2", "5">>
      [] c = " " -> <<"%", "2", "0">>
      [] c = "?" -> <<"%", "3", "F">>
      [] c = "#" -> <<"%", "2", "3">>
      [] OTHER -> <<c>>

RECURSIVE encode_path_segment(_)
encode_path_segment(segment) ==
    IF segment = <<>> THEN <<>>
    ELSE encode_path_segment_char(Head(segment))
         \o encode_path_segment(Tail(segment))

\* PathSegmentsMut::push, mutated: the segment is appended as it is.
push_unencoded(path, segment) ==
    IF segment \in {<<".">>, <<".", ".">>} THEN path
    ELSE (IF Len(path) # 1 THEN path \o <<"/">> ELSE path) \o segment

\* PathSegmentsMut::push on a path: the segments "." and ".." are skipped; a
\* slash is added unless the path is "/"; the segment is added encoded.
push(path, segment) ==
    IF segment \in {<<".">>, <<".", ".">>} THEN path
    ELSE (IF Len(path) # 1 THEN path \o <<"/">> ELSE path)
         \o encode_path_segment(segment)

\* for segment in segments { path_segments.push(segment); }
RECURSIVE push_all(_, _)
push_all(path, segments) ==
    IF segments = <<>> THEN path
    ELSE push_all(push(path, Head(segments)), Tail(segments))

\* endpoint_url
endpoint_url(base_url, segments) ==
    IF base_url.cannot_be_a_base
    THEN Err(InvalidConfig("base_url must be hierarchical"))
    ELSE Ok([base_url EXCEPT !.path = push_all(base_url.path, segments)])

\* The base of the texts given to normalize_base_url.
URL_HEAD == <<"h", "t", "t", "p", "s", ":", "/", "/", "h", ".", "i", "o">>

\* Paths of those texts: none, the root, with one and two trailing slashes
\* and with an empty segment inside.
BasePaths ==
    {<<>>,
     <<"/">>,
     <<"/", "a", "p", "i">>,
     <<"/", "a", "p", "i", "/">>,
     <<"/", "a", "p", "i", "/", "/">>,
     <<"/", "/">>,
     <<"/", "a", "/", "b", "/">>,
     <<"/", "a", "/", "/", "b">>}

\* Texts given to normalize_base_url: a hierarchical URL with each path, with
\* and without a query (empty or not), a fragment (empty or not) and
\* surrounding spaces; URLs that cannot be a base; texts that are no URL.
BaseUrlInputs ==
    {pad \o URL_HEAD \o path \o query \o fragment \o pad :
        pad \in {<<>>, <<" ">>},
        path \in BasePaths,
        query \in {<<>>, <<"?">>, <<"?", "x", "=", "1">>},
        fragment \in {<<>>, <<"#">>, <<"#", "f">>}}
    \cup {<<"m", "a", "i", "l", "t", "o", ":", "a">>,
           <<"m", "a", "i", "l", "t", "o", ":", "a", "?", "x", "=", "1">>,
           <<"h", ".", "i", "o", "/", "a", "p", "i">>,
           <<>>,
           <<":", "/", "/", "h", ".", "i", "o">>}

\* The segment lists given to endpoint_url.
SegmentLists ==
    {<<>>,
     <<<<"u", "s", "e", "r", "s">>, <<"a", "/", "b">>>>,
     <<<<"r", "o", "b", "o", "t">>, <<"s", "e", "n", "d">>>>,
     <<<<"a", " ", "b">>>>,
     <<<<"a", "%", "b">>>>,
     <<<<"a", "?", "b">>, <<"c", "#", "d">>>>,
     <<<<".", ".">>, <<"x">>>>,
     <<<<".">>>>}

\* A text and a list of segments are chosen; nothing has been applied.
UrlInit ==
    /\ fn_input \in [value : BaseUrlInputs, segments : SegmentLists]
    /\ fn_output = None
    /\ CacheUnused
    /\ LockUnused
    /\ ErrUnused
    /\ SvcUnused
    /\ ValUnused
    /\ SendUnused
    /\ BuildUnused

\* normalize_base_url(value)
ApplyNormalize ==
    /\ fn_output = None
    /\ fn_output' = Some([fn |-> "normalize_base_url",
                          result |-> normalize_base_url(fn_input.value)])
    /\ UNCHANGED <<fn_input, fnOthers>>

\* endpoint_url(&base, segments), base being the normalised text
\* (ClientBuilder keeps the result of normalize_base_url as the base).
ApplyEndpoint ==
    /\ fn_output = None
    /\ normalize_base_url(fn_input.value).ok
    /\ fn_output' = Some([fn |-> "endpoint_url",
                          result |-> endpoint_url(
                                        normalize_base_url(fn_input.value).value,
                                        fn_input.segments)])
    /\ UNCHANGED <<fn_input, fnOthers>>

UrlNext == ApplyNormalize \/ ApplyEndpoint

UrlSpec == UrlInit /\ [][UrlNext]_vars

----------------------------------------------------------------------------
(* SignSpec: create_signature applied to a timestamp and a secret, and      *)
(* build_webhook_url applied to a base, a token and an optional secret.     *)
(* src/src/signature.rs, src/src/transport/mod.rs 55-69.  HMAC-SHA256 is    *)
(* the hmac and sha2 crates': its digests are tabulated for the keys and    *)
(* contents of the model.  Base64, urlencoding and the form encoding of     *)
(* query pairs are computed.  Tokens and secrets are ASCII.                 *)

UpperLetters ==
    {"A", "B", "C", "D", "E", "F", "G", "H", "I", "J", "K", "L", "M", "N", "O",
     "P", "Q", "R", "S", "T", "U", "V", "W", "X", "Y", "Z"}

\* The secrets of the model; the empty one is a key of length 0.
Secrets ==
    {<<"s", "e", "c", "r", "e", "t">>, <<>>, <<"S", "E", "C">>}

\* The timestamps given to create_signature.
Timestamps ==
    {<<"1", "7", "0", "0", "0", "0", "0", "0", "0", "0", "0", "0", "0">>, <<"1", "7">>, <<"1", "8">>}

\* Hmac::<Sha256>: the 32 bytes of the digest for each key and content.
HMAC_SHA256 ==
    {[key |-> <<"s", "e", "c", "r", "e", "t">>,
      content |->
          <<"1", "7", "0", "0", "0", "0", "0", "0", "0", "0", "0", "0", "0",
          "\n", "s", "e", "c", "r", "e", "t">>,
      digest |->
          <<58, 236, 243, 37, 30, 126, 197, 158, 63, 17, 140, 42, 180, 219,
          122, 176, 198, 25, 64, 196, 218, 252, 113, 6, 189, 207, 102, 136,
          151, 187, 95, 54>>],
     [key |-> <<"s", "e", "c", "r", "e", "t">>,
      content |->
          <<"1", "7", "\n", "s", "e", "c", "r", "e", "t">>,
      digest |->
          <<125, 247, 86, 126, 29, 0, 134, 156, 122, 53, 67, 128, 149, 192,
          253, 73, 72, 136, 220, 30, 81, 255, 19, 190, 74, 100, 114, 156, 61,
          241, 228, 235>>],
     [key |-> <<"s", "e", "c", "r", "e", "t">>,
      content |->
          <<"1", "8", "\n", "s", "e", "c", "r", "e", "t">>,
      digest |->
          <<100, 164, 173, 110, 78, 111, 165, 44, 194, 132, 18, 234, 229, 133,
          217, 23, 172, 216, 115, 44, 197, 134, 19, 178, 109, 39, 184, 102,
          114, 49, 170, 152>>],
     [key |-> <<>>,
      content |->
          <<"1", "7", "0", "0", "0", "0", "0", "0", "0", "0", "0", "0", "0",
          "\n">>,
      digest |->
          <<193, 1, 30, 134, 76, 115, 35, 0, 86, 97, 224, 137, 203, 226, 2,
          120, 215, 224, 102, 163, 79, 154, 145, 98, 48, 80, 211, 233, 12,
          102, 243, 86>>],
     [key |-> <<>>,
      content |->
          <<"1", "7", "\n">>,
      digest |->
          <<250, 69, 25, 159, 168, 240, 223, 6, 220, 137, 76, 23, 223, 5, 116,
          105, 191, 79, 228, 76, 150, 160, 42, 237, 93, 236, 245, 253, 62,
          248, 180, 154>>],
     [key |-> <<>>,
      content |->
          <<"1", "8", "\n">>,
      digest |->
          <<107, 20, 16, 245, 178, 159, 165, 253, 184, 177, 203, 100, 82, 119,
          171, 115, 99, 26, 110, 65, 235, 226, 176, 52, 13, 31, 221, 104, 97,
          60, 108, 144>>],
     [key |-> <<"S", "E", "C">>,
      content |->
          <<"1", "7", "0", "0", "0", "0", "0", "0", "0", "0", "0", "0", "0",
          "\n", "S", "E", "C">>,
      digest |->
          <<175, 237, 176, 123, 74, 180, 214, 89, 25, 171, 61, 252, 44, 14, 72,
          60, 214, 199, 55, 205, 84, 214, 87, 145, 127, 112, 46, 224, 244,
          144, 111, 164>>],
     [key |-> <<"S", "E", "C">>,
      content |->
          <<"1", "7", "\n", "S", "E", "C">>,
      digest |->
          <<195, 48, 102, 79, 132, 119, 168, 127, 50, 232, 175, 79, 129, 86,
          229, 211, 43, 36, 247, 122, 80, 197, 61, 254, 140, 151, 149, 248,
          138, 186, 144, 231>>],
     [key |-> <<"S", "E", "C">>,
      content |->
          <<"1", "8", "\n", "S", "E", "C">>,
      digest |->
          <<134, 129, 82, 100, 194, 13, 132, 235, 143, 246, 75, 96, 237, 135,
          204, 195, 138, 20, 181, 197, 23, 162, 233, 168, 163, 189, 80, 5,
          103, 188, 91, 117>>]}

\* sign_hmac_sha256: new_from_slice takes a key of any length, so the
\* Error::Signature branch is never taken.
sign_hmac_sha256(secret, content) ==
    Ok((CHOOSE d \in HMAC_SHA256 : d.key = secret /\ d.content = content).digest)

\* The alphabet of base64::engine::general_purpose::STANDARD.
BASE64_ALPHABET ==
    <<"A", "B", "C", "D", "E", "F", "G", "H", "I", "J", "K", "L", "M", "N",
    "O", "P", "Q", "R", "S", "T", "U", "V", "W", "X", "Y", "Z", "a", "b",
    "c", "d", "e", "f", "g", "h", "i", "j", "k", "l", "m", "n", "o", "p",
    "q", "r", "s", "t", "u", "v", "w", "x", "y", "z", "0", "1", "2", "3",
    "4", "5", "6", "7", "8", "9", "+", "/">>

\* STANDARD.encode: three bytes give four chars; the last one or two bytes
\* are padded with "=".
RECURSIVE STANDARD_encode(_)
STANDARD_encode(bytes) ==
    IF bytes = <<>> THEN <<>>
    ELSE IF Len(bytes) = 1
    THEN <<BASE64_ALPHABET[(bytes[1] \div 4) + 1],
           BASE64_ALPHABET[((bytes[1] % 4) * 16) + 1], "=", "=">>
    ELSE IF Len(bytes) = 2
    THEN <<BASE64_ALPHABET[(bytes[1] \div 4) + 1],
           BASE64_ALPHABET[((bytes[1] % 4) * 16) + (bytes[2] \div 16) + 1],
           BASE64_ALPHABET[((bytes[2] % 16) * 4) + 1], "=">>
    ELSE <<BASE64_ALPHABET[(bytes[1] \div 4) + 1],
           BASE64_ALPHABET[((bytes[1] % 4) * 16) + (bytes[2] \div 16) + 1],
           BASE64_ALPHABET[((bytes[2] % 16) * 4) + (bytes[3] \div 64) + 1],
           BASE64_ALPHABET[(bytes[3] % 64) + 1]>>
         \o STANDARD_encode(SubSeq(bytes, 4, Len(bytes)))

\* The percent-encoded octet of an ASCII char that is neither a letter nor
\* a digit.
percent_octet(c) ==
    CASE c = "+" -> <<"%", "2", "B">>
      [] c = "/" -> <<"%", "2", "F">>
      [] c = "=" -> <<"%", "3", "D">>
      [] c = "%" -> <<"%", "2", "5">>
      [] c = "&" -> <<"%", "2", "6">>
      [] c = " " -> <<"%", "2", "0">>
      [] c = "?" -> <<"%", "3", "F">>
      [] c = "#" -> <<"%", "2", "3">>
      [] c = "\n" -> <<"%", "0", "A">>
      [] c = "*" -> <<"%", "2", "A">>
      [] c = "~" -> <<"%", "7", "E">>

AlphaNumeric == Digit \cup LowerLetters \cup UpperLetters

\* urlencoding::encode: letters, digits and - _ . ~ are kept, every other
\* byte is percent-encoded.
RECURSIVE urlencoding_encode(_)
urlencoding_encode(s) ==
    IF s = <<>> THEN <<>>
    ELSE (IF Head(s) \in AlphaNumeric \cup {"-", "_", ".", "~"}
          THEN <<Head(s)>>
          ELSE percent_octet(Head(s)))
         \o urlencoding_encode(Tail(s))

\* create_signature, mutated: the time of the call is signed, not the
\* timestamp given.
create_signature_of_now(timestamp, secret) ==
    IF ~fn_input.system_time.ok THEN Err([variant |-> "Timestamp"])
    ELSE LET string_to_sign == Digits(fn_input.system_time.value)
                                   \o <<"\n">> \o secret
             signature == sign_hmac_sha256(secret, string_to_sign)
         IN  Ok(urlencoding_encode(STANDARD_encode(signature.value)))

\* create_signature
create_signature(timestamp, secret) ==
    LET string_to_sign == timestamp \o <<"\n">> \o secret
        signature == sign_hmac_sha256(secret, string_to_sign)
    IN  IF ~signature.ok THEN signature
        ELSE LET signature_base64 == STANDARD_encode(signature.value)
             IN  Ok(urlencoding_encode(signature_base64))

\* current_timestamp_millis: the milliseconds since the epoch in decimal;
\* duration_since fails for a system time before the epoch.
current_timestamp_millis(system_time) ==
    IF system_time.ok THEN Ok(Digits(system_time.value))
    ELSE Err([variant |-> "Timestamp"])

\* form_urlencoded::byte_serialize: letters, digits and * - . _ are kept, a
\* space becomes "+", every other byte is percent-encoded.
RECURSIVE byte_serialize(_)
byte_serialize(s) ==
    IF s = <<>> THEN <<>>
    ELSE (IF Head(s) \in AlphaNumeric \cup {"*", "-", ".", "_"}
          THEN <<Head(s)>>
          ELSE IF Head(s) = " " THEN <<"+">>
          ELSE percent_octet(Head(s)))
         \o byte_serialize(Tail(s))

\* Serializer::append_pair, mutated: name and value are written as they are.
append_pair_raw(query, name, value) ==
    (IF query = <<>> THEN <<>> ELSE query \o <<"&">>)
    \o name \o <<"=">> \o value

\* Serializer::append_pair on the text of the query.
append_pair(query, name, value) ==
    (IF query = <<>> THEN <<>> ELSE query \o <<"&">>)
    \o byte_serialize(name) \o <<"=">> \o byte_serialize(value)

ACCESS_TOKEN == <<"a", "c", "c", "e", "s", "s", "_", "t", "o", "k", "e", "n">>

TIMESTAMP == <<"t", "i", "m", "e", "s", "t", "a", "m", "p">>

SIGN == <<"s", "i", "g", "n">>

\* build_webhook_url; system_time is what SystemTime::now() gives.
build_webhook_url(base_url, token, secret, system_time) ==
    LET endpoint == endpoint_url(base_url, <<<<"r", "o", "b", "o", "t">>, <<"s", "e", "n", "d">>>>)
    IN  IF ~endpoint.ok THEN endpoint
        ELSE LET url == endpoint.value
                 query == append_pair(IF IsSome(url.query)
                                      THEN Unwrap(url.query) ELSE <<>>,
                                      ACCESS_TOKEN, token)
             IN  IF ~IsSome(secret) THEN Ok([url EXCEPT !.query = Some(query)])
                 ELSE LET timestamp == current_timestamp_millis(system_time)
                      IN  IF ~timestamp.ok THEN timestamp
                          ELSE LET sign == create_signature(timestamp.value,
                                                            Unwrap(secret))
                               IN  IF ~sign.ok THEN sign
                                   ELSE Ok([url EXCEPT !.query =
                                       Some(append_pair(
                                           append_pair(query, TIMESTAMP,
                                                       timestamp.value),
                                           SIGN, sign.value))])

\* How often create_signature is applied to the same arguments.
MaxInvocations == 2

\* What SystemTime::now() gives: the milliseconds since the epoch (small
\* numbers stand for them), or a time before the epoch.
SystemTimes == {Ok(17), Ok(18), Err("SystemTimeError")}

\* The tokens given to build_webhook_url.
WebhookTokens ==
    {<<"t", "o", "k", "e", "n", "-", "1", "2", "3">>,
     <<"a", " ", "b">>,
     <<"a", "&", "b", "=", "c">>,
     <<"a", "+", "b">>,
     <<"a", "%", "2", "F", "b">>,
     <<>>}

\* The bases given to build_webhook_url, before normalize_base_url.
WebhookBases == {URL_HEAD, URL_HEAD \o <<"/", "a", "p", "i", "/">>}

\* Arguments and a system time are chosen; nothing has been applied.
SignInit ==
    /\ fn_input \in [timestamp : Timestamps, secret : Secrets,
                     signed : BOOLEAN, token : WebhookTokens, base : WebhookBases,
                     system_time : SystemTimes]
    /\ fn_output = None
    /\ CacheUnused
    /\ LockUnused
    /\ ErrUnused
    /\ SvcUnused
    /\ ValUnused
    /\ SendUnused
    /\ BuildUnused

\* create_signature(&timestamp, secret), once more with the same arguments
\* as long as MaxInvocations allows; the earlier results are kept.
ApplyCreateSignature ==
    /\ \/ fn_output = None
       \/ /\ IsSome(fn_output)
          /\ Unwrap(fn_output).fn = "create_signature"
          /\ Len(Unwrap(fn_output).earlier) + 1 < MaxInvocations
    /\ fn_output' = Some([fn |-> "create_signature",
                          result |-> create_signature(fn_input.timestamp,
                                                      fn_input.secret),
                          earlier |-> IF fn_output = None THEN <<>>
                                      ELSE Append(Unwrap(fn_output).earlier,
                                                  Unwrap(fn_output).result)])
    /\ UNCHANGED <<fn_input, fnOthers>>

\* build_webhook_url(&base_url, token, secret), the base being normalised (it
\* is the client's webhook_base_url).
ApplyBuildWebhookUrl ==
    /\ fn_output = None
    /\ fn_output' = Some([fn |-> "build_webhook_url",
                          result |-> build_webhook_url(
                                        normalize_base_url(fn_input.base).value,
                                        fn_input.token,
                                        IF fn_input.signed
                                        THEN Some(fn_input.secret) ELSE None,
                                        fn_input.system_time),
                          earlier |-> <<>>])
    /\ UNCHANGED <<fn_input, fnOthers>>

\* The system time changes.
SystemTimePasses ==
    /\ \E t \in SystemTimes \ {fn_input.system_time} :
          fn_input' = [fn_input EXCEPT !.system_time = t]
    /\ UNCHANGED <<fn_output, fnOthers>>

SignNext == ApplyCreateSignature \/ ApplyBuildWebhookUrl \/ SystemTimePasses

SignSpec == SignInit /\ [][SignNext]_vars

----------------------------------------------------------------------------
(* BuildSpec: a ClientBuilder is given a retry configuration, a Client is   *)
(* built from it and the HTTP collaborator makes the attempts of a request  *)
(* under the policy it was given.  src/src/retry.rs,                        *)
(* src/src/client/async_client.rs.  The collaborator (reqx) is not part of  *)
(* the repository: it makes at most max_attempts attempts per request, and  *)
(* as many as its own default allows when no policy is set.                 *)

\* Stand-in for usize::MAX.
UsizeMax == 1000000

\* Attempts of one request that are followed.
MaxObservedAttempts == 4

\* usize::saturating_add
saturating_add(a, b) == IF a + b <= UsizeMax THEN a + b ELSE UsizeMax

\* RetryConfig::new
RetryConfig_new(max_retries, base_backoff) ==
    [max_retries |-> max_retries, base_backoff |-> base_backoff]

\* RetryConfig::standard: 2 retries, 200 ms.
RetryConfig_standard == [max_retries |-> 2, base_backoff |-> 200]

\* max_retries as a caller may set it (any usize).
MaxRetriesValues == {0, 1, 2, 3, UsizeMax - 1, UsizeMax}

\* base_backoff as a caller may set it, in milliseconds.
BaseBackoffs == {0, 200}

\* ClientBuilder::default(), the fields the retry policy is built from.
ClientBuilder_default == [retry_config |-> None, retry_non_idempotent |-> FALSE]

\* build_http_client, mutated: max_retries is given as the attempts.
build_http_client_noadd(b) ==
    [retry_policy |->
        IF IsSome(b.retry_config)
        THEN Some([max_attempts |-> Unwrap(b.retry_config).max_retries,
                   base_backoff |-> Unwrap(b.retry_config).base_backoff])
        ELSE None,
     permissive |-> b.retry_non_idempotent]

\* ClientBuilder::build_http_client: what the HttpClient is given about
\* retries.
build_http_client(b) ==
    [retry_policy |->
        IF IsSome(b.retry_config)
        THEN Some([max_attempts |->
                       saturating_add(Unwrap(b.retry_config).max_retries, 1),
                   base_backoff |-> Unwrap(b.retry_config).base_backoff])
        ELSE None,
     permissive |-> b.retry_non_idempotent]

\* ClientBuilder::new()
BuildInit ==
    /\ builder = ClientBuilder_default
    /\ client = None
    /\ attempts = 0
    /\ CacheUnused
    /\ LockUnused
    /\ ErrUnused
    /\ SvcUnused
    /\ ValUnused
    /\ SendUnused
    /\ FnUnused

\* What the builder's methods leave alone.
buildOthers ==
    <<cacheVars, lockVars, errVars, svcVars, valVars, sendVars, fnVars>>

\* builder.retry(value), value made by RetryConfig::standard() and its
\* setters max_retries and base_backoff.  After build this is a clone of the
\* builder: build takes the builder by value.
Retry(max_retries, base_backoff) ==
    /\ builder' = [builder EXCEPT !.retry_config =
                      Some([[RetryConfig_standard
                                EXCEPT !.max_retries = max_retries]
                                EXCEPT !.base_backoff = base_backoff])]
    /\ UNCHANGED <<client, attempts, buildOthers>>

\* builder.with_retry(max_retries, base_backoff)
WithRetry(max_retries, base_backoff) ==
    /\ builder' = [builder EXCEPT !.retry_config =
                      Some(RetryConfig_new(max_retries, base_backoff))]
    /\ UNCHANGED <<client, attempts, buildOthers>>

\* builder.retry_non_idempotent(enabled)
RetryNonIdempotent(enabled) ==
    /\ builder' = [builder EXCEPT !.retry_non_idempotent = enabled]
    /\ UNCHANGED <<client, attempts, buildOthers>>

\* builder.build(): both HTTP clients are built from the same builder.  The
\* configuration the client was built from is kept for reference.
Build ==
    /\ client = None
    /\ client' = Some([webhook_http |-> build_http_client(builder),
                       enterprise_http |-> build_http_client(builder),
                       built_from |-> builder])
    /\ UNCHANGED <<builder, attempts, buildOthers>>

\* The collaborator makes one more attempt of the request under way, as the
\* policy of the client allows.
Attempt ==
    /\ IsSome(client)
    /\ attempts < MaxObservedAttempts
    /\ LET policy == Unwrap(client).webhook_http.retry_policy
       IN  IsSome(policy) => attempts < Unwrap(policy).max_attempts
    /\ attempts' = attempts + 1
    /\ UNCHANGED <<builder, client, buildOthers>>

\* The request ends; the next one starts with no attempt made.
RequestEnds ==
    /\ attempts > 0
    /\ attempts' = 0
    /\ UNCHANGED <<builder, client, buildOthers>>

BuildNext ==
    \/ \E m \in MaxRetriesValues, b \in BaseBackoffs : Retry(m, b)
    \/ \E m \in MaxRetriesValues, b \in BaseBackoffs : WithRetry(m, b)
    \/ \E enabled \in BOOLEAN : RetryNonIdempotent(enabled)
    \/ Build
    \/ Attempt
    \/ RequestEnds

BuildSpec == BuildInit /\ [][BuildNext]_vars

----------------------------------------------------------------------------
(* ReplySpec: reply_message applied to the data of an incoming callback,    *)
(* and is_private_conversation applied to the same data.                    *)
(* src/src/api/async_enterprise.rs 392-444, blocking_enterprise.rs 360-410  *)
(* (the same code without the await), src/src/api/mod.rs 23-26.             *)
(* A serde_json::Value is a record of its kind and what it holds; a field   *)
(* of the data is None when the object has no such key.                     *)

\* Value::as_str
as_str(value) == IF value.kind = "string" THEN Some(value.holds) ELSE None

\* Value::as_i64: a number held as an integer.
as_i64(value) == IF value.kind = "integer" THEN Some(value.holds) ELSE None

\* is_private_conversation
is_private_conversation(data) ==
    /\ IsSome(data.conversationType)
    /\ \/ as_str(Unwrap(data.conversationType)) = Some("1")
       \/ as_i64(Unwrap(data.conversationType)) = Some(1)

\* Option::and_then(|v| v.as_str()) on a field of the data.
field_as_str(field) == IF IsSome(field) THEN as_str(Unwrap(field)) ELSE None

\* The call reply_message ends with: send_enterprise_message(segments,
\* request), whose result it returns.
SendEnterpriseMessage(segments, request) ==
    [segments |-> segments, request |-> request]

OTO_SEGMENTS == <<"v1.0", "robot", "oToMessages", "batchSend">>

GROUP_SEGMENTS == <<"v1.0", "robot", "groupMessages", "send">>

\* reply_message up to the send: Err for a missing field, otherwise the
\* message handed to send_enterprise_message.
reply_message(data) ==
    IF field_as_str(data.conversationType) = Some("1")
    THEN LET sender_staff_id == field_as_str(data.senderStaffId)
         IN  IF ~IsSome(sender_staff_id)
             THEN Err(InvalidConfig("Missing senderStaffId"))
             ELSE Ok(SendEnterpriseMessage(
                        OTO_SEGMENTS,
                        [user_ids |-> <<Unwrap(sender_staff_id)>>]))
    ELSE LET conversation_id == field_as_str(data.conversationId)
         IN  IF ~IsSome(conversation_id)
             THEN Err(InvalidConfig("Missing conversationId"))
             ELSE Ok(SendEnterpriseMessage(
                        GROUP_SEGMENTS,
                        [open_conversation_id |-> Unwrap(conversation_id)]))

\* conversationType of a callback: absent, the strings "1", "2" and "",
\* the numbers 1, 2 and 1.0, and null.
ConversationTypes ==
    {None,
     Some([kind |-> "string", holds |-> "1"]),
     Some([kind |-> "string", holds |-> "2"]),
     Some([kind |-> "string", holds |-> ""]),
     Some([kind |-> "integer", holds |-> 1]),
     Some([kind |-> "integer", holds |-> 2]),
     Some([kind |-> "float", holds |-> 1]),
     Some([kind |-> "null", holds |-> 0])}

\* senderStaffId / conversationId of a callback: absent, a string, a number.
IdFields(id) ==
    {None, Some([kind |-> "string", holds |-> id]),
     Some([kind |-> "integer", holds |-> 7])}

\* The data of a callback is chosen; nothing has been applied.
ReplyInit ==
    /\ fn_input \in [conversationType : ConversationTypes,
                     senderStaffId : IdFields("staff-1"),
                     conversationId : IdFields("cid-1")]
    /\ fn_output = None
    /\ CacheUnused
    /\ LockUnused
    /\ ErrUnused
    /\ SvcUnused
    /\ ValUnused
    /\ SendUnused
    /\ BuildUnused

\* EnterpriseService::reply_message(data, title, text)
ApplyReplyMessage ==
    /\ fn_output = None
    /\ fn_output' = Some([fn |-> "reply_message",
                          result |-> reply_message(fn_input)])
    /\ UNCHANGED <<fn_input, fnOthers>>

\* BlockingEnterpriseService::reply_message(data, title, text)
ApplyBlockingReplyMessage ==
    /\ fn_output = None
    /\ fn_output' = Some([fn |-> "blocking reply_message",
                          result |-> reply_message(fn_input)])
    /\ UNCHANGED <<fn_input, fnOthers>>

\* is_private_conversation(data)
ApplyIsPrivateConversation ==
    /\ fn_output = None
    /\ fn_output' = Some([fn |-> "is_private_conversation",
                          result |-> is_private_conversation(fn_input)])
    /\ UNCHANGED <<fn_input, fnOthers>>

ReplyNext ==
    \/ ApplyReplyMessage
    \/ ApplyBlockingReplyMessage
    \/ ApplyIsPrivateConversation

ReplySpec == ReplyInit /\ [][ReplyNext]_vars

----------------------------------------------------------------------------
(* DisplaySpec: two Api errors that differ in nothing but body_snippet are  *)
(* written with Display, and body_snippet() is read from the first.         *)
(* src/src/error.rs 95-110 (#[error("API error (code={code}): {message}")]) *)
(* and 252-264.                                                             *)

\* i64's Display.
i64_to_string(n) == IF n < 0 THEN <<"-">> \o Digits(0 - n) ELSE Digits(n)

\* Display of Error::Api, mutated: the snippet is written as well.
fmt_Api_with_snippet(e) ==
    <<"A", "P", "I", " ", "e", "r", "r", "o", "r", " ", "(", "c", "o", "d",
      "e", "=">> \o i64_to_string(e.code)
    \o <<")", ":", " ">> \o e.message
    \o (IF IsSome(e.body_snippet) THEN Unwrap(e.body_snippet) ELSE <<>>)

\* Display of Error::Api: "API error (code={code}): {message}".
fmt_Api(e) ==
    <<"A", "P", "I", " ", "e", "r", "r", "o", "r", " ", "(", "c", "o", "d",
      "e", "=">> \o i64_to_string(e.code)
    \o <<")", ":", " ">> \o e.message

\* Business messages of an Api error.
ApiMessages ==
    {<<"i", "n", "v", "a", "l", "i", "d">>,
     <<"t", "o", "k", "e", "n", "x", "x", "x">>,
     <<>>}

\* What an Api error retains as body_snippet: nothing, a whole body, a body
\* cut at 6 bytes, and a body with a redacted value.
ApiSnippets ==
    {None,
     Some(<<"{", "\"", "e", "r", "r", "c", "o", "d", "e", "\"", ":", "3",
            "1", "0", "0", "0", "0", ",", "\"", "e", "r", "r", "m", "s",
            "g", "\"", ":", "\"", "i", "n", "v", "a", "l", "i", "d", "\"",
            "}">>),
     Some(<<"{", "\"", "e", "r", "r", "c", ".", ".", ".", "(", "t", "r",
            "u", "n", "c", "a", "t", "e", "d", ")">>),
     Some(<<"{", "\"", "e", "r", "r", "c", "o", "d", "e", "\"", ":", "1",
            ",", "\"", "e", "r", "r", "m", "s", "g", "\"", ":", "\"", "t",
            "o", "k", "e", "n", "=", "<", "r", "e", "d", "a", "c", "t",
            "e", "d", ">">>)}

\* Two Api errors are chosen that differ at most in body_snippet.
DisplayInit ==
    /\ fn_input \in [code : {-1, 0, 310000}, message : ApiMessages,
                     request_id : RequestIds, body_snippet : ApiSnippets,
                     other_snippet : ApiSnippets]
    /\ fn_output = None
    /\ CacheUnused
    /\ LockUnused
    /\ ErrUnused
    /\ SvcUnused
    /\ ValUnused
    /\ SendUnused
    /\ BuildUnused

\* The first of the two errors.
FirstError ==
    api_error(fn_input.code, fn_input.message, fn_input.request_id,
              fn_input.body_snippet)

\* The second: the first with the other snippet.
SecondError ==
    api_error(fn_input.code, fn_input.message, fn_input.request_id,
              fn_input.other_snippet)

\* error.to_string() on both errors.
ApplyToString ==
    /\ fn_output = None
    /\ fn_output' = Some([fn |-> "to_string", result |-> fmt_Api(FirstError),
                          other |-> fmt_Api(SecondError)])
    /\ UNCHANGED <<fn_input, fnOthers>>

\* error.body_snippet() on both errors.
ApplyBodySnippet ==
    /\ fn_output = None
    /\ fn_output' = Some([fn |-> "body_snippet",
                          result |-> body_snippet_of(FirstError),
                          other |-> body_snippet_of(SecondError)])
    /\ UNCHANGED <<fn_input, fnOthers>>

DisplayNext == ApplyToString \/ ApplyBodySnippet

DisplaySpec == DisplayInit /\ [][DisplayNext]_vars

----------------------------------------------------------------------------
(* CallSpec: concurrent callers of send_enterprise_message on handles       *)
(* sharing one AccessTokenCache, split at every lock operation and at every *)
(* HTTP call.  src/src/api/async_enterprise.rs, src/src/transport/mod.rs.   *)
(* An HTTP call in flight may never be answered.                            *)

\* Positions at which a caller has an HTTP call in flight.
HttpInFlight == {"gettoken_sent", "business_sent"}

NotCalling == [pc |-> "idle", calls |-> 0, at |-> 0, entry |-> None,
               token |-> None]

CallInit ==
    /\ now = 1
    /\ refresh_margin \in LockMargins
    /\ inner = None
    /\ ops = <<NoOp, NoOp>>
    /\ lock = [readers |-> {}, writer |-> None]
    /\ th = [t \in Threads |-> NotCalling]
    /\ abs = None
    /\ ErrUnused
    /\ SvcUnused
    /\ ValUnused
    /\ SendUnused
    /\ FnUnused
    /\ BuildUnused

\* send_enterprise_message calls get_access_token, which calls get:
\* let now = Instant::now();
CallBegin(t) ==
    /\ th[t].pc = "idle"
    /\ th[t].calls < MaxCalls
    /\ th' = [th EXCEPT ![t] = [NotCalling EXCEPT !.pc = "get_lock",
                                                  !.calls = th[t].calls,
                                                  !.at = now]]
    /\ UNCHANGED <<cacheVars, lock, abs, lockOthers>>

\* get: let guard = self.inner.read().ok()?;
CallReadLock(t) ==
    /\ th[t].pc = "get_lock"
    /\ ReadLockFree(lock)
    /\ lock' = [lock EXCEPT !.readers = @ \cup {t}]
    /\ th' = [th EXCEPT ![t].pc = "get_check"]
    /\ UNCHANGED <<cacheVars, abs, lockOthers>>

\* get returns, mutated: the read guard is handed to the caller and lives
\* until the call ends.
CallGetReturn_keepguard(t) ==
    /\ th[t].pc = "get_check"
    /\ LET cached == CacheGet(inner, refresh_margin, th[t].at)
       IN  th' = [th EXCEPT
                    ![t].pc = IF IsSome(cached) THEN "business_sent"
                              ELSE "gettoken_sent",
                    ![t].token = cached]
    /\ UNCHANGED <<cacheVars, lock, abs, lockOthers>>

\* get compares and returns, its guard is dropped; get_access_token returns
\* a fresh token, and the business request is sent with it, or sends
\* GET /gettoken.
CallGetReturn(t) ==
    /\ th[t].pc = "get_check"
    /\ lock' = [lock EXCEPT !.readers = @ \ {t}]
    /\ LET cached == CacheGet(inner, refresh_margin, th[t].at)
       IN  th' = [th EXCEPT
                    ![t].pc = IF IsSome(cached) THEN "business_sent"
                              ELSE "gettoken_sent",
                    ![t].token = cached]
    /\ UNCHANGED <<cacheVars, abs, lockOthers>>

\* GET /gettoken is answered: on a failure the call ends; on a token store
\* computes ttl and expires_at before it asks for the lock.
TokenAnswer(t, r) ==
    /\ th[t].pc = "gettoken_sent"
    /\ IF r.failed \/ r.errcode # 0 \/ ~IsSome(r.access_token)
       THEN th' = [th EXCEPT ![t].pc = "idle", ![t].calls = @ + 1]
       ELSE th' = [th EXCEPT
                     ![t].pc = "store_lock",
                     ![t].token = r.access_token,
                     ![t].entry = StoredEntry(Unwrap(r.access_token),
                                              r.expires_in, now)]
    /\ UNCHANGED <<cacheVars, lock, abs, lockOthers>>

\* store: if let Ok(mut guard) = self.inner.write()
CallWriteLock(t) ==
    /\ th[t].pc = "store_lock"
    /\ WriteLockFree(lock)
    /\ lock' = [lock EXCEPT !.writer = Some(t)]
    /\ th' = [th EXCEPT ![t].pc = "store_write"]
    /\ UNCHANGED <<cacheVars, abs, lockOthers>>

\* store: *guard = Some(CachedAccessToken { token, expires_at });
CallStoreWrite(t) ==
    /\ th[t].pc = "store_write"
    /\ inner' = th[t].entry
    /\ th' = [th EXCEPT ![t].pc = "store_unlock"]
    /\ UNCHANGED <<now, refresh_margin, ops, lock, abs, lockOthers>>

\* store returns, its guard is dropped; get_access_token returns the token
\* and the business request is sent with it.
CallStoreReturn(t) ==
    /\ th[t].pc = "store_unlock"
    /\ lock' = [lock EXCEPT !.writer = None]
    /\ th' = [th EXCEPT ![t].pc = "business_sent"]
    /\ UNCHANGED <<cacheVars, abs, lockOthers>>

\* The business request is answered and the call ends.
BusinessAnswer(t) ==
    /\ th[t].pc = "business_sent"
    /\ th' = [th EXCEPT ![t].pc = "idle", ![t].calls = @ + 1]
    /\ UNCHANGED <<cacheVars, lock, abs, lockOthers>>

\* The clock advances while the callers run.
CallTick ==
    /\ now + 60 <= MaxNow
    /\ now' = now + 60
    /\ UNCHANGED <<refresh_margin, inner, ops, lockVars, lockOthers>>

CallNext ==
    \/ \E t \in Threads : CallBegin(t)
    \/ \E t \in Threads : CallReadLock(t)
    \/ \E t \in Threads : CallGetReturn(t)
    \/ \E t \in Threads : \E r \in TokenResponses(<<t, th[t].calls>>) :
          TokenAnswer(t, r)
    \/ \E t \in Threads : CallWriteLock(t)
    \/ \E t \in Threads : CallStoreWrite(t)
    \/ \E t \in Threads : CallStoreReturn(t)
    \/ \E t \in Threads : BusinessAnswer(t)
    \/ CallTick

CallSpec == CallInit /\ [][CallNext]_vars

----------------------------------------------------------------------------
(* ValiditySpec: one caller of get_access_token, the server that issues the *)
(* token, and the clock running between the request, the issue, the store   *)
(* and the later calls.  src/src/api/async_enterprise.rs 54-86,             *)
(* src/src/transport/mod.rs 92-119.  An issued token is named after its     *)
(* issue time and the expires_in the server reports for it.                 *)

\* expires_in reported with a token: omitted, below the floor, above it.
ValidityExpiresIn == {None, Some(1), Some(60)}

ValidityMargins == {0, 30}

NoRefresh == [pc |-> "idle", response |-> None, result |-> None, at |-> 0,
              from_cache |-> FALSE]

validityOthers ==
    <<ops, cache_access_token, services, caches, lockVars, errVars, valVars,
      sendVars, fnVars, buildVars>>

ValidityInit ==
    /\ now = 1
    /\ refresh_margin \in ValidityMargins
    /\ inner = None
    /\ ops = <<NoOp, NoOp>>
    /\ cache_access_token = TRUE
    /\ services = <<>>
    /\ caches = <<>>
    /\ calls = NoRefresh
    /\ LockUnused
    /\ ErrUnused
    /\ ValUnused
    /\ SendUnused
    /\ FnUnused
    /\ BuildUnused

\* get_access_token up to the await: the token cache.get() gives is
\* returned, otherwise GET /gettoken is sent.
RequestToken ==
    /\ calls.pc = "idle"
    /\ LET cached == CacheGet(inner, refresh_margin, now)
       IN  calls' = IF IsSome(cached)
                    THEN [pc |-> "idle", response |-> None, result |-> cached,
                          at |-> now, from_cache |-> TRUE]
                    ELSE [pc |-> "gettoken_sent", response |-> None,
                          result |-> None, at |-> now, from_cache |-> FALSE]
    /\ UNCHANGED <<now, refresh_margin, inner, validityOthers>>

\* The server issues a token and answers with it and its expires_in; the
\* answer is on its way to the client.
ServerIssues(e) ==
    /\ calls.pc = "gettoken_sent"
    /\ calls' = [calls EXCEPT
                   !.pc = "answered",
                   !.response = Some([access_token |->
                                         [issued_at |-> now, expires_in |-> e],
                                      expires_in |-> e])]
    /\ UNCHANGED <<now, refresh_margin, inner, validityOthers>>

\* get_access_token after the await: cache.store(access_token.clone(),
\* response.expires_in) and Ok(access_token).
ReceiveToken ==
    /\ calls.pc = "answered"
    /\ LET r == Unwrap(calls.response)
       IN  /\ inner' = StoredEntry(r.access_token, r.expires_in, now)
           /\ calls' = [pc |-> "idle", response |-> None,
                        result |-> Some(r.access_token), at |-> now,
                        from_cache |-> FALSE]
    /\ UNCHANGED <<now, refresh_margin, validityOthers>>

\* The clock advances, also while a request or its answer is on the way.
ValidityTick(d) ==
    /\ now + d <= MaxNow
    /\ now' = now + d
    /\ UNCHANGED <<refresh_margin, inner, calls, validityOthers>>

ValidityNext ==
    \/ RequestToken
    \/ \E e \in ValidityExpiresIn : ServerIssues(e)
    \/ ReceiveToken
    \/ \E d \in TickSteps : ValidityTick(d)

ValiditySpec == ValidityInit /\ [][ValidityNext]_vars

----------------------------------------------------------------------------
(* Claims about AccessTokenCache, checked under CacheSpec                   *)

\* The TTL the contract of store names: max(expires_in, floor) for a positive
\* expires_in, the default otherwise.
ContractTtl(e) ==
    IF e # None /\ e[1] > 0
    THEN (IF e[1] < MIN_ACCESS_TOKEN_TTL THEN MIN_ACCESS_TOKEN_TTL ELSE e[1])
    ELSE DEFAULT_ACCESS_TOKEN_TTL

\* C1: get returns the cached token exactly when an entry exists and
\* now + refresh_margin < expires_at (strictly); otherwise it returns nothing,
\* even while now < expires_at.
C1_GetIffFresh ==
    ops[1].op = "get" =>
        /\ IsSome(ops[1].result) <=>
              (inner # None /\ ops[1].at + refresh_margin < inner[1].expires_at)
        /\ IsSome(ops[1].result) => ops[1].result[1] = inner[1].token

\* C1 witness: a get that returns nothing although the entry has not expired.
C1_Witness ==
    /\ ops[1].op = "get"
    /\ ops[1].result = None
    /\ inner # None
    /\ ops[1].at < inner[1].expires_at
    /\ ops[1].at + refresh_margin >= inner[1].expires_at

\* C2 as stated: store always sets expires_at = now + ttl.
C2_Original ==
    ops[1].op = "store" =>
        /\ inner # None
        /\ inner[1].expires_at = ops[1].at + ContractTtl(ops[1].expires_in)

\* C2 (amended): store(token, expires_in) sets expires_at = now + ttl with
\* ttl = max(expires_in, 30) for a positive expires_in and 7200 otherwise,
\* unless now + ttl is not representable as an Instant, in which case
\* expires_at is the current instant; the entry holds the stored token.
C2_StoreExpiry ==
    ops[1].op = "store" =>
        /\ inner # None
        /\ inner[1].token = ops[1].token
        /\ inner[1].expires_at =
              (IF ops[1].at + ContractTtl(ops[1].expires_in) <= InstantMax
               THEN ops[1].at + ContractTtl(ops[1].expires_in)
               ELSE ops[1].at)

\* C2 witness: a store of a positive expires_in below the floor, clamped up.
C2_Witness ==
    /\ ops[1].op = "store"
    /\ ops[1].expires_in = Some(1)
    /\ inner[1].expires_at = ops[1].at + MIN_ACCESS_TOKEN_TTL

\* A get issued immediately after a store: no clock step in between.
GetRightAfterStore ==
    /\ ops[1].op = "get"
    /\ ops[2].op = "store"
    /\ ops[1].at = ops[2].at

\* C3 as stated: get right after store(token, e) returns the token iff the
\* refresh margin is smaller than the effective TTL.
C3_Original ==
    GetRightAfterStore =>
        (ops[1].result = Some(ops[2].token)
            <=> refresh_margin < ContractTtl(ops[2].expires_in))

\* C3 (amended): get right after store(token, e) returns the stored token iff
\* the refresh margin is smaller than the effective TTL and now + TTL is
\* representable as an Instant; otherwise it returns nothing.  In particular a
\* positive e below the floor with a margin >= the floor gives nothing, and
\* e = 60 with margin 0 gives the token.
C3_GetAfterStore ==
    GetRightAfterStore =>
        /\ ops[1].result \in {None, Some(ops[2].token)}
        /\ ops[1].result = Some(ops[2].token)
              <=> (/\ refresh_margin < ContractTtl(ops[2].expires_in)
                   /\ ops[2].at + ContractTtl(ops[2].expires_in) <= InstantMax)
        /\ (/\ ops[2].expires_in # None
            /\ ops[2].expires_in[1] > 0
            /\ ops[2].expires_in[1] < MIN_ACCESS_TOKEN_TTL
            /\ refresh_margin >= MIN_ACCESS_TOKEN_TTL) => ops[1].result = None
        /\ (ops[2].expires_in = Some(60) /\ refresh_margin = 0)
              => ops[1].result = Some(ops[2].token)

\* C3 witness: expires_in below the floor, margin at least the floor, and the
\* get right after the store returns nothing.
C3_Witness ==
    /\ GetRightAfterStore
    /\ ops[2].expires_in = Some(1)
    /\ refresh_margin >= MIN_ACCESS_TOKEN_TTL
    /\ ops[1].result = None

----------------------------------------------------------------------------
(* Claims about concurrent use, checked under LockSpec                      *)

\* C4: under any interleaving of get and store, every get evaluates the token
\* and the expiry of one single store (never the token of one against the
\* expires_at of another), every get returns what the atomic get returns on
\* the entry current when it took the lock, and outside a store's critical
\* section the cache holds exactly the entry of the last store.
C4_NoTornRead ==
    /\ \A t \in Threads :
          (th[t].op = "get" /\ th[t].pc \in {"get_unlock", "idle"}) =>
              /\ th[t].result = CacheGet(th[t].snap, refresh_margin, th[t].at)
              /\ th[t].result # None =>
                    [token |-> th[t].result[1], expires_at |-> th[t].seen[1]]
                        = th[t].snap[1]
    /\ \A t \in Threads :
          (th[t].op = "get" /\ th[t].pc = "get_clone") => th[t].seen[1] = inner[1].expires_at
    /\ lock.writer = None => inner = abs

\* C4 witness: a get holds the read lock on a stored entry, about to clone
\* its token, while another thread is waiting to replace that entry.
C4_Witness ==
    \E t, u \in Threads :
        /\ t # u
        /\ th[t].pc = "get_clone"
        /\ th[u].pc = "store_lock"
        /\ inner # None
        /\ inner[1].token[1] = u

----------------------------------------------------------------------------
(* Claims about error classification, checked under ErrorSpec               *)

FromTransport == error # None /\ source[1].origin = "reqx"

\* The fixed table of section 4.3.
TableKind(s) ==
    CASE s = 401 \/ s = 403 -> "Auth"
      [] s = 404 -> "NotFound"
      [] s = 409 \/ s = 412 -> "Conflict"
      [] s = 429 -> "RateLimited"
      [] OTHER -> "Transport"

\* C7: when the transport failure carries an HTTP status, the error is the
\* one the fixed table names (401/403 Auth, 404 NotFound, 409/412 Conflict,
\* 429 RateLimited with the retry-after hint, anything else Transport with
\* that status), and status() returns the reported code.
C7_StatusTable ==
    (FromTransport /\ source[1].reqx.status # None) =>
        LET s == source[1].reqx.status[1]
            e == error[1]
        IN  /\ kind(e) = TableKind(s)
            /\ status_of(e) = Some(s)
            /\ kind(e) = "RateLimited" =>
                  retry_after_of(e) = source[1].reqx.retry_after
            /\ kind(e) = "Transport" => e.error.status = Some(s)

\* C7 witness: a 412 response with a retry-after hint, classified Conflict.
C7_Witness ==
    /\ FromTransport
    /\ source[1].reqx.status = Some(412)
    /\ source[1].reqx.code = "HttpStatus"
    /\ kind(error[1]) = "Conflict"

\* C8: the retryable flag of a Transport error is true exactly for timeout,
\* deadline-exceeded, generic-transport, retry-budget-exhausted and
\* circuit-open failures and for HTTP-status failures with status 429 or
\* 500..599.
C8_RetryableFlag ==
    (FromTransport /\ kind(error[1]) = "Transport") =>
        LET src == source[1].reqx
        IN  error[1].error.retryable <=>
               \/ src.code = "Timeout"
               \/ src.code = "DeadlineExceeded"
               \/ src.code = "Transport"
               \/ src.code = "RetryBudgetExhausted"
               \/ src.code = "CircuitOpen"
               \/ /\ src.code = "HttpStatus"
                  /\ src.status # None
                  /\ \/ src.status[1] = 429
                     \/ src.status[1] \in 500..599

\* C8 witness: an HTTP-status failure with a client-error status: a Transport
\* error whose flag is false.
C8_Witness ==
    /\ FromTransport
    /\ kind(error[1]) = "Transport"
    /\ source[1].reqx.code = "HttpStatus"
    /\ source[1].reqx.status = Some(400)
    /\ ~error[1].error.retryable

\* C9: is_retryable() is true exactly for every RateLimited error, a
\* Transport error whose flag is set, and an Api error with code 130101 or
\* 130102; it is false for every other error.
C9_IsRetryable ==
    error # None =>
        LET e == error[1]
        IN  is_retryable(e) <=>
               \/ kind(e) = "RateLimited"
               \/ kind(e) = "Transport" /\ e.error.retryable
               \/ kind(e) = "Api" /\ (e.code = 130101 \/ e.code = 130102)

\* C9 witness: the Api error with the second transient code is retryable.
C9_Witness ==
    /\ error # None
    /\ kind(error[1]) = "Api"
    /\ error[1].code = 130102
    /\ is_retryable(error[1])

----------------------------------------------------------------------------
(* Claims about the enterprise service, checked under Spec                  *)

\* C5: with cache_access_token disabled no cache is instantiated, every
\* get_access_token call sends a token-issuance request, and the token a call
\* returns is the one issued in answer to that very call, never one obtained
\* by an earlier call.
C5_NoCacheAlwaysIssues ==
    ~cache_access_token =>
        /\ caches = <<>>
        /\ \A h \in DOMAIN services : services[h].cache = None
        /\ \A t \in Threads :
              (calls[t].n > 0 \/ calls[t].pc # "idle") => calls[t].requests = 1
        /\ \A t \in Threads :
              (calls[t].pc = "idle" /\ calls[t].result # None
                  /\ calls[t].result[1].ok) =>
                 calls[t].result[1].value.for = <<t, calls[t].n - 1>>

\* C5 witness: with the cache disabled a thread has completed its second
\* call, which returned the token issued for that second call.
C5_Witness ==
    /\ ~cache_access_token
    /\ \E t \in Threads :
          /\ calls[t].n = 2
          /\ calls[t].pc = "idle"
          /\ calls[t].result[1].ok
          /\ calls[t].result[1].value.for = <<t, 1>>
          /\ calls[t].requests = 1

SameService(h1, h2) == services[h1].root = services[h2].root

\* Clones of one service see one entry; handles of separate enterprise()
\* calls have separate caches.
C6_OneCachePerService ==
    \A h1, h2 \in DOMAIN services :
        /\ cache_access_token => services[h1].cache # None
        /\ SameService(h1, h2) => Entry(h1) = Entry(h2)
        /\ (cache_access_token /\ ~SameService(h1, h2))
              => services[h1].cache # services[h2].cache

\* A get_access_token that stores a token through handle calls[t].h makes it
\* the entry of every clone and leaves the entry of every other service as
\* it was.
C6_StoreStep ==
    \A t \in Threads :
        (calls[t].pc = "gettoken_sent" /\ calls'[t].pc = "idle") =>
            \A h \in DOMAIN services :
                /\ ~SameService(h, calls[t].h) => Entry(h)' = Entry(h)
                /\ (cache_access_token /\ SameService(h, calls[t].h)
                       /\ calls'[t].result[1].ok) =>
                      /\ Entry(h)' # None
                      /\ Entry(h)'[1].token = calls'[t].result[1].value

\* C6: there is one cache per enterprise-service handle, shared only across
\* its clones: a token stored through one clone is the entry every other
\* clone reads, and a store through one handle leaves unchanged the cache of
\* any handle created by a separate client.enterprise(..) call.
C6_CachePerHandle == [](C6_OneCachePerService) /\ [][C6_StoreStep]_vars

\* C6 witness: h1 and h2 are clones, h3 comes from a separate enterprise()
\* call; h3 still holds the token of the first call although a second call
\* has stored its token through h2, which a get through h1 now returns.
C6_Witness ==
    \E h1, h2, h3 \in DOMAIN services : \E t \in Threads :
        /\ h1 # h2
        /\ SameService(h1, h2)
        /\ ~SameService(h1, h3)
        /\ Entry(h3) # None
        /\ Entry(h3)[1].token = [for |-> <<t, 0>>, via |-> h3]
        /\ Entry(h1) # None
        /\ Entry(h1)[1].token = [for |-> <<t, 1>>, via |-> h2]
        /\ CacheGet(Entry(h1), refresh_margin, now) = Some(Entry(h1)[1].token)

----------------------------------------------------------------------------
(* Claims about validate_standard_api_response, checked under ValidateSpec  *)

\* Validation has run on a received body.
Validated == IsSome(body) /\ IsSome(outcome)

\* Some sensitive key occurs in the text, in any letter case.
HoldsSensitiveKey(text) ==
    \E i \in 1..Len(SENSITIVE_KEYS) :
        IsSome(find(to_lowercase(text), SENSITIVE_KEYS[i]))

\* What is stated of a validated body: a body that decodes with a non-zero
\* errcode gives Error::Api with that code, the body's errmsg (the fixed text
\* when it has none), and the snippet redact(truncate(body)) or none by the
\* configuration; a body with errcode 0 gives Ok.  With unlessAborted, bodies
\* on which producing the snippet panics are left out.
ValidationContract(unlessAborted) ==
    Validated =>
        LET text == Unwrap(body)
            r == Unwrap(outcome)
            d == from_str(text)
            max_bytes == snippet_config.max_bytes
            snippet == redact_text(truncate_snippet(text, max_bytes))
            aborted == snippet_config.enabled /\ snippet.panicked
        IN  /\ (/\ d.ok
                /\ IsSome(d.value.errcode)
                /\ Unwrap(d.value.errcode) # 0
                /\ (unlessAborted => ~aborted))
               => /\ ~r.panicked
                  /\ ~r.value.ok
                  /\ r.value.error.variant = "Api"
                  /\ r.value.error.code = Unwrap(d.value.errcode)
                  /\ r.value.error.message =
                        (IF IsSome(d.value.errmsg) THEN Unwrap(d.value.errmsg)
                         ELSE UNKNOWN_API_ERROR)
                  /\ (snippet_config.enabled =>
                        /\ ~snippet.panicked
                        /\ r.value.error.body_snippet = Some(snippet.value)
                        /\ (str_len(text) <= max_bytes /\ ~HoldsSensitiveKey(text)
                              => r.value.error.body_snippet = Some(text)))
                  /\ (~snippet_config.enabled =>
                        r.value.error.body_snippet = None)
            /\ (d.ok /\ d.value.errcode = Some(0) => r = Returned(Ok("unit")))

\* C10: every body that decodes with a non-zero errcode is answered with an
\* Api error carrying that code, the errmsg and, by the configuration, the
\* snippet redact(truncate(body, max_bytes)) or none; errcode 0 is success.
C10_Validation == ValidationContract(FALSE)

\* C10, leaving out the bodies on which redact_text panics: for all others
\* the statement holds.
C10_ValidationUnlessAborted == ValidationContract(TRUE)

\* C10: a body with a non-zero errcode was validated with snippet capture on
\* and the call panicked instead of returning the Api error.
C10_Witness ==
    /\ Validated
    /\ from_str(Unwrap(body)).ok
    /\ from_str(Unwrap(body)).value.errcode = Some(310000)
    /\ snippet_config = DefaultBodySnippetConfig
    /\ Unwrap(outcome).panicked

----------------------------------------------------------------------------
(* Claims about message sends, checked under SendSpec                       *)

\* A send has returned (or panicked) after the collaborator handed over a
\* response to its business request.
SendAnswered ==
    /\ call.pc = "idle"
    /\ IsSome(call.response)
    /\ Unwrap(call.response).handed

\* The errcode the body of that response decodes to, None when it has none.
AnsweredErrcode ==
    LET d == from_str(Unwrap(call.response).body)
    IN  IF d.ok THEN d.value.errcode ELSE None

\* The send ended with Error::Api carrying the code of the answer.
EndedWithApiCode ==
    LET r == Unwrap(call.result)
    IN  /\ ~r.panicked
        /\ ~r.value.ok
        /\ r.value.error.variant = "Api"
        /\ r.value.error.code = Unwrap(AnsweredErrcode)

\* C11: a response handed over with errcode # 0 in its body ends the send
\* with an Api error carrying that code, whatever its HTTP status.
C11_ApiWhateverStatus ==
    (SendAnswered /\ IsSome(AnsweredErrcode) /\ Unwrap(AnsweredErrcode) # 0)
        => EndedWithApiCode

\* C11, leaving out the sends that panicked while the snippet was produced:
\* all others end with the Api error, for each status.
C11_ApiUnlessAborted ==
    (/\ SendAnswered
     /\ IsSome(AnsweredErrcode)
     /\ Unwrap(AnsweredErrcode) # 0
     /\ ~Unwrap(call.result).panicked)
        => EndedWithApiCode

\* C11: a 500 response with errcode 310000 was handed over and the send
\* panicked instead of returning the Api error.
C11_Witness ==
    /\ SendAnswered
    /\ Unwrap(call.response).status = 500
    /\ AnsweredErrcode = Some(310000)
    /\ Unwrap(call.result).panicked

\* A send has returned an Error to its caller.
SendFailed ==
    /\ call.pc = "idle"
    /\ IsSome(call.result)
    /\ ~Unwrap(call.result).panicked
    /\ ~Unwrap(call.result).value.ok

\* The Error the send returned.
SendError == Unwrap(call.result).value.error

\* The Error was built by validation from a response that was handed over.
FromAnsweredBody == SendAnswered /\ SendError.variant = "Api"

\* text occurs in whole, as consecutive chars.
Contains(whole, text) ==
    \E k \in 1..(Len(whole) - Len(text) + 1) :
        SubSeq(whole, k, k + Len(text) - 1) = text

\* text is taken from the body and is not what redaction makes of it.
ExposesRaw(text, whole) ==
    Contains(whole, text) /\ redact_text(text) # Returned(text)

\* The snippet of the returned Error, when it has one, is
\* redact(truncate(body, max_bytes)) of the response body.
SnippetIsRedacted ==
    IsSome(body_snippet_of(SendError)) =>
        /\ FromAnsweredBody
        /\ snippet_config.enabled
        /\ LET text == Unwrap(call.response).body
               redacted == redact_text(truncate_snippet(text,
                                                        snippet_config.max_bytes))
           IN  /\ ~redacted.panicked
               /\ body_snippet_of(SendError) = Some(redacted.value)

\* C12 as stated: the snippet of a returned Error is the redacted, truncated
\* body, and no other field and no text of its Display holds body text that
\* redaction would have changed.
C12_Original ==
    SendFailed =>
        /\ SnippetIsRedacted
        /\ FromAnsweredBody =>
              /\ ~ExposesRaw(SendError.message, Unwrap(call.response).body)
              /\ \A i \in DOMAIN DisplayTexts(SendError) :
                    ~ExposesRaw(DisplayTexts(SendError)[i],
                                Unwrap(call.response).body)

\* C12, amended: the snippet of a returned Error is the redacted, truncated
\* body and Display never writes it; the message of an Api error is the
\* errmsg of the body as received (the fixed text when it has none), not
\* redacted, and Display writes it; an Error built from a collaborator
\* failure holds no snippet.
C12_SnippetOnlyRedacted ==
    SendFailed =>
        /\ SnippetIsRedacted
        /\ \A i \in DOMAIN DisplayTexts(SendError) :
              Some(DisplayTexts(SendError)[i]) # body_snippet_of(SendError)
        /\ FromAnsweredBody =>
              LET d == from_str(Unwrap(call.response).body)
              IN  /\ SendError.message =
                        (IF IsSome(d.value.errmsg) THEN Unwrap(d.value.errmsg)
                         ELSE UNKNOWN_API_ERROR)
                  /\ DisplayTexts(SendError) = <<SendError.message>>
                  /\ SendError.request_id = None
        /\ ~FromAnsweredBody => body_snippet_of(SendError) = None

\* C12: an Api error was returned whose snippet is the body with a window
\* masked and whose message is the same text of the body, not masked.
C12_Witness ==
    /\ SendFailed
    /\ FromAnsweredBody
    /\ IsSome(body_snippet_of(SendError))
    /\ body_snippet_of(SendError) # Some(Unwrap(call.response).body)
    /\ ExposesRaw(SendError.message, Unwrap(call.response).body)

----------------------------------------------------------------------------
(* Claims about redact_text and truncate_snippet, checked under RedactSpec  *)

\* fn has been applied to the chosen arguments.
Applied(fn) == IsSome(fn_output) /\ Unwrap(fn_output).fn = fn

\* The occurrences of key in text, whatever the letter case: <<k, m>> when
\* the m chars of text from the k-th on read as key in lowercase.
Occurrences(text, key) ==
    {<<k, m>> \in (1..Len(text)) \X (1..Len(key)) :
        /\ k + m - 1 <= Len(text)
        /\ to_lowercase(SubSeq(text, k, k + m - 1)) = key}

\* The number of leading chars of text that fit in n bytes.
CharsWithin(text, n) ==
    CHOOSE w \in 0..Len(text) :
        /\ str_len(SubSeq(text, 1, w)) <= n
        /\ w < Len(text) => str_len(SubSeq(text, 1, w + 1)) > n

\* What is stated of one key: the window of at most 32 bytes that follows
\* its first occurrence is replaced by the marker, the text up to the end of
\* the key and the text after the window stay.
MaskedAfter(text, key) ==
    IF Occurrences(text, key) = {} THEN text
    ELSE LET first == CHOOSE o \in Occurrences(text, key) :
                         \A p \in Occurrences(text, key) : o[1] <= p[1]
             upto == first[1] + first[2] - 1
             after == SubSeq(text, upto + 1, Len(text))
             w == CharsWithin(after, 32)
         IN  IF after = <<>> THEN text
             ELSE SubSeq(text, 1, upto) \o REDACTED
                  \o SubSeq(after, w + 1, Len(after))

\* The same for each of the keys in turn, from the i-th on.
RECURSIVE MaskedFrom(_, _)
MaskedFrom(text, i) ==
    IF i > Len(SENSITIVE_KEYS) THEN text
    ELSE MaskedFrom(MaskedAfter(text, SENSITIVE_KEYS[i]), i + 1)

\* The text holds a char whose lowercase form has another length in bytes.
ChangesLength(text) ==
    \E k \in 1..Len(text) :
        str_len(char_to_lowercase(text[k])) # len_utf8(text[k])

\* C13: redact_text returns the text with, for each key, the window that
\* follows its first occurrence replaced by the marker and everything else
\* as it was; the value abcdef123456 of the token pair is gone.
C13_Redact ==
    Applied("redact_text") =>
        LET r == Unwrap(fn_output).result
        IN  /\ ~r.panicked
            /\ r.value = MaskedFrom(fn_input.text, 1)
            /\ Contains(fn_input.text, TOKEN_PAIR) =>
                 ~Contains(r.value, SubSeq(TOKEN_PAIR, 16, 27))

\* C13, for the texts on which redact_text returns and whose lowercase form
\* keeps every byte offset: for these the statement holds.
C13_RedactAligned ==
    (/\ Applied("redact_text")
     /\ ~Unwrap(fn_output).result.panicked
     /\ ~ChangesLength(fn_input.text))
        => /\ Unwrap(fn_output).result.value = MaskedFrom(fn_input.text, 1)
           /\ Contains(fn_input.text, TOKEN_PAIR) =>
                ~Contains(Unwrap(fn_output).result.value,
                          SubSeq(TOKEN_PAIR, 16, 27))

\* C13: redact_text was applied to "token", 31 ASCII chars and a two-byte
\* char, and panicked.
C13_Witness ==
    /\ Applied("redact_text")
    /\ fn_input.text = <<"t", "o", "k", "e", "n">> \o Pad(31) \o <<"U+00E9">>
    /\ Unwrap(fn_output).result.panicked

\* C13: redact_text was applied to a text with the Kelvin sign inside the
\* key and returned a text in which the end of the key is overwritten.
C13_Misplaced ==
    /\ Applied("redact_text")
    /\ ChangesLength(fn_input.text)
    /\ ~Unwrap(fn_output).result.panicked
    /\ Unwrap(fn_output).result.value # MaskedFrom(fn_input.text, 1)

\* C14: truncate_snippet returns the text unchanged when it fits in
\* max_bytes; otherwise the longest run of whole leading chars that fits in
\* max_bytes, followed by the truncation marker.
C14_Truncate ==
    Applied("truncate_snippet") =>
        LET text == fn_input.text
            max_bytes == fn_input.max_bytes
            r == Unwrap(fn_output).result.value
        IN  IF str_len(text) <= max_bytes THEN r = text
            ELSE \E k \in 0..(Len(text) - 1) :
                    /\ r = SubSeq(text, 1, k) \o TRUNCATED
                    /\ str_len(SubSeq(text, 1, k)) <= max_bytes
                    /\ str_len(SubSeq(text, 1, k + 1)) > max_bytes

\* C14: truncate_snippet was applied to a text longer than max_bytes whose
\* byte max_bytes lies inside a multi-byte char.
C14_Witness ==
    /\ Applied("truncate_snippet")
    /\ str_len(fn_input.text) > fn_input.max_bytes
    /\ ~is_char_boundary(fn_input.text, fn_input.max_bytes)
    /\ Unwrap(fn_output).result.value # fn_input.text

----------------------------------------------------------------------------
(* Claims about normalize_base_url and endpoint_url, checked under UrlSpec. *)

\* The text given to normalize_base_url, as Url::parse reads it.
GivenUrl == Url_parse(trim(fn_input.value))

\* The text is a hierarchical address without query and fragment.
Acceptable ==
    /\ GivenUrl.ok
    /\ ~GivenUrl.value.cannot_be_a_base
    /\ \A i \in 1..Len(fn_input.value) : fn_input.value[i] \notin {"?", "#"}

\* The path without one trailing slash; the root path as it is.
WithoutOneSlash(path) ==
    IF path # <<"/">> /\ path # <<>> /\ path[Len(path)] = "/"
    THEN SubSeq(path, 1, Len(path) - 1)
    ELSE path

\* The path without its trailing slashes; the root path when nothing else
\* is left.
WithoutTrailingSlashes(path) ==
    LET kept == {i \in 1..Len(path) : path[i] # "/"}
    IN  IF kept = {} THEN <<"/">>
        ELSE SubSeq(path, 1, CHOOSE i \in kept : \A j \in kept : j <= i)

\* normalize_base_url rejects with InvalidConfig what is not acceptable and
\* answers an acceptable text with its URL, the path being kept(path).
NormalizeContract(kept(_)) ==
    Applied("normalize_base_url") =>
        LET r == Unwrap(fn_output).result
        IN  IF Acceptable
            THEN /\ r.ok
                 /\ r.value = [GivenUrl.value EXCEPT
                                  !.path = kept(GivenUrl.value.path)]
            ELSE /\ ~r.ok
                 /\ r.error.variant = "InvalidConfig"

\* C15 as stated: normalize_base_url fails with InvalidConfig for every text
\* that is not a hierarchical address or carries a query or a fragment; for
\* an accepted text it strips a single trailing slash from the path, leaves
\* the rest of the path unchanged and preserves the root path.
C15_SingleSlash == NormalizeContract(WithoutOneSlash)

\* C15, amended: normalize_base_url fails with InvalidConfig for every text
\* that is not a hierarchical address or carries a query or a fragment; for
\* an accepted text it strips every trailing slash from the path (the path
\* is the root when nothing else is left), leaves the rest of the path
\* unchanged and preserves the root path.
C15_Normalize == NormalizeContract(WithoutTrailingSlashes)

\* C15: normalize_base_url accepted a text whose path ends with two slashes
\* and answered with the path without both.
C15_Witness ==
    /\ Applied("normalize_base_url")
    /\ Acceptable
    /\ GivenUrl.value.path = <<"/", "a", "p", "i", "/", "/">>
    /\ Unwrap(fn_output).result.ok
    /\ Unwrap(fn_output).result.value.path = <<"/", "a", "p", "i">>

\* C15: normalize_base_url rejected a hierarchical address with a fragment.
C15_Rejected ==
    /\ Applied("normalize_base_url")
    /\ GivenUrl.ok
    /\ ~GivenUrl.value.cannot_be_a_base
    /\ IsSome(GivenUrl.value.fragment)
    /\ ~IsSome(GivenUrl.value.query)
    /\ ~Unwrap(fn_output).result.ok

\* The base given to endpoint_url: the normalised text.
GivenBase == normalize_base_url(fn_input.value).value

\* The char a percent-encoded octet stands for.
Unhex(hi, lo) ==
    CASE <<hi, lo>> = <<"2", "F">> -> "/"
      [] <<hi, lo>> = <<"2", "5">> -> "%"
      [] <<hi, lo>> = <<"2", "0">> -> " "
      [] <<hi, lo>> = <<"3", "F">> -> "?"
      [] <<hi, lo>> = <<"2", "3">> -> "#"
      [] <<hi, lo>> = <<"2", "B">> -> "+"
      [] <<hi, lo>> = <<"3", "D">> -> "="
      [] <<hi, lo>> = <<"2", "6">> -> "&"
      [] <<hi, lo>> = <<"0", "A">> -> "\n"
      [] OTHER -> "U+FFFD"

\* The text a percent-encoded text stands for, decoded once.
RECURSIVE percent_decoded(_)
percent_decoded(s) ==
    IF s = <<>> THEN <<>>
    ELSE IF Head(s) = "%" /\ Len(s) >= 3
    THEN <<Unhex(s[2], s[3])>> \o percent_decoded(SubSeq(s, 4, Len(s)))
    ELSE <<Head(s)>> \o percent_decoded(Tail(s))

\* The texts between the occurrences of sep in s.
RECURSIVE SplitAt(_, _)
SplitAt(s, sep) ==
    LET cut == FirstOf(s, {sep}, 1)
    IN  IF cut > Len(s) THEN <<s>>
        ELSE <<SubSeq(s, 1, cut - 1)>> \o SplitAt(SubSeq(s, cut + 1, Len(s)), sep)

\* The components of a path: none for the root.
Components(path) ==
    IF path = <<"/">> THEN <<>> ELSE SplitAt(Tail(path), "/")

IsDots(segment) == segment \in {<<".">>, <<".", ".">>}

AnySegment(segment) == TRUE

NotDots(segment) == ~IsDots(segment)

\* endpoint_url answers with the base, its path followed by one component
\* per counted segment, in order, which decodes to the segment; scheme and
\* host are the base's and there is no query and no fragment.
EndpointContract(counted(_)) ==
    Applied("endpoint_url") =>
        LET r == Unwrap(fn_output).result
            added == SelectSeq(fn_input.segments, counted)
            before == Components(GivenBase.path)
        IN  /\ r.ok
            /\ r.value = [GivenBase EXCEPT !.path = r.value.path]
            /\ r.value.query = None
            /\ LET after == Components(r.value.path)
               IN  /\ Len(after) = Len(before) + Len(added)
                   /\ \A i \in 1..Len(before) : after[i] = before[i]
                   /\ \A j \in 1..Len(added) :
                          percent_decoded(after[Len(before) + j]) = added[j]

C16_Skipped ==
    /\ Applied("endpoint_url")
    /\ fn_input.segments = <<<<".", ".">>, <<"x">>>>
    /\ Len(Components(Unwrap(fn_output).result.value.path)) =
           Len(Components(GivenBase.path)) + 1

----------------------------------------------------------------------------
(* Claims about create_signature and build_webhook_url, checked under       *)
(* SignSpec.                                                                *)

\* The signature the test creates_expected_signature expects for the
\* timestamp 1700000000000 and the secret "secret".
EXPECTED_SIGNATURE ==
    <<"O", "u", "z", "z", "J", "R", "5", "%", "2", "B", "x", "Z", "4", "%",
      "2", "F", "E", "Y", "w", "q", "t", "N", "t", "6", "s", "M", "Y", "Z",
      "Q", "M", "T", "a", "%", "2", "F", "H", "E", "G", "v", "c", "9", "m",
      "i", "J", "e", "7", "X", "z", "Y", "%", "3", "D">>

REGRESSION_TIMESTAMP ==
    <<"1", "7", "0", "0", "0", "0", "0", "0", "0", "0", "0", "0", "0">>

REGRESSION_SECRET == <<"s", "e", "c", "r", "e", "t">>

\* The base64 text of the HMAC-SHA256 of timestamp, newline and secret under
\* the key secret.
Base64Hmac(timestamp, secret) ==
    STANDARD_encode(
        (CHOOSE d \in HMAC_SHA256 :
            /\ d.key = secret
            /\ d.content = timestamp \o <<"\n">> \o secret).digest)

\* C17: create_signature never fails; its result, percent-decoded, is the
\* base64 HMAC-SHA256 of timestamp, newline, secret under the key secret;
\* every invocation with the same arguments gives the same result, whatever
\* the system time; for 1700000000000 and "secret" the result is the
\* regression value.
C17_Deterministic ==
    Applied("create_signature") =>
        LET o == Unwrap(fn_output)
        IN  /\ o.result.ok
            /\ percent_decoded(o.result.value) =
                   Base64Hmac(fn_input.timestamp, fn_input.secret)
            /\ \A i \in 1..Len(o.earlier) : o.earlier[i] = o.result
            /\ (/\ fn_input.timestamp = REGRESSION_TIMESTAMP
                /\ fn_input.secret = REGRESSION_SECRET)
                   => o.result.value = EXPECTED_SIGNATURE

\* C17: create_signature was applied twice to 1700000000000 and "secret" and
\* gave the regression value both times.
C17_Witness ==
    /\ Applied("create_signature")
    /\ fn_input.timestamp = REGRESSION_TIMESTAMP
    /\ fn_input.secret = REGRESSION_SECRET
    /\ Unwrap(fn_output).earlier = <<Ok(EXPECTED_SIGNATURE)>>
    /\ Unwrap(fn_output).result = Ok(EXPECTED_SIGNATURE)

\* C17: create_signature was applied to the empty secret and did not fail.
C17_EmptySecret ==
    /\ Applied("create_signature")
    /\ fn_input.secret = <<>>
    /\ Unwrap(fn_output).result.ok

\* form_urlencoded decoding of a name or a value: "+" is a space and a
\* percent-encoded octet is its char.
RECURSIVE form_decoded(_)
form_decoded(s) ==
    IF s = <<>> THEN <<>>
    ELSE IF Head(s) = "+" THEN <<" ">> \o form_decoded(Tail(s))
    ELSE IF Head(s) = "%" /\ Len(s) >= 3
    THEN <<Unhex(s[2], s[3])>> \o form_decoded(SubSeq(s, 4, Len(s)))
    ELSE <<Head(s)>> \o form_decoded(Tail(s))

\* The name and the value of one piece of a query, as they are on the wire.
WirePair(piece) ==
    LET eq == FirstOf(piece, {"="}, 1)
    IN  [name |-> SubSeq(piece, 1, eq - 1),
         value |-> SubSeq(piece, eq + 1, Len(piece))]

\* The pairs of a query as they are on the wire, in order.
WirePairs(query) ==
    LET pieces == SplitAt(query, "&")
    IN  [i \in 1..Len(pieces) |-> WirePair(pieces[i])]

\* Url::query_pairs: the decoded pairs of a query, in order.
query_pairs(query) ==
    LET wire == WirePairs(query)
    IN  [i \in 1..Len(wire) |-> [name |-> form_decoded(wire[i].name),
                                 value |-> form_decoded(wire[i].value)]]

\* build_webhook_url returned a URL.
Built ==
    /\ Applied("build_webhook_url")
    /\ Unwrap(fn_output).result.ok

BuiltQuery == Unwrap(Unwrap(fn_output).result.value.query)

\* C18: build_webhook_url without a secret always yields a URL, and its only
\* query parameter is access_token; with a secret a URL it yields has
\* exactly access_token, timestamp and sign, in this order, sign being the
\* signature of that timestamp value; re-parsing the query recovers the
\* token given.
C18_WebhookUrl ==
    /\ (Applied("build_webhook_url") /\ ~fn_input.signed)
           => Unwrap(fn_output).result.ok
    /\ Built =>
        LET pairs == query_pairs(BuiltQuery)
        IN  /\ pairs[1] = [name |-> ACCESS_TOKEN, value |-> fn_input.token]
            /\ IF ~fn_input.signed THEN Len(pairs) = 1
               ELSE /\ Len(pairs) = 3
                    /\ pairs[2].name = TIMESTAMP
                    /\ pairs[3].name = SIGN
                    /\ percent_decoded(pairs[3].value) =
                           Base64Hmac(pairs[2].value, fn_input.secret)

\* C18: build_webhook_url was applied with a secret to a token that holds
\* "&" and "=" and yielded a URL with three query parameters.
C18_Witness ==
    /\ Built
    /\ fn_input.signed
    /\ fn_input.token = <<"a", "&", "b", "=", "c">>
    /\ Len(query_pairs(BuiltQuery)) = 3

\* C18: build_webhook_url was applied without a secret to a token with a
\* space and yielded access_token=a+b.
C18_Unsigned ==
    /\ Built
    /\ ~fn_input.signed
    /\ fn_input.token = <<"a", " ", "b">>
    /\ BuiltQuery = ACCESS_TOKEN \o <<"=", "a", "+", "b">>

\* The sign parameter of the built URL as it is on the wire.
WireSign == WirePairs(BuiltQuery)[3].value

\* The timestamp parameter of the built URL as it is on the wire (digits).
WireTimestamp == WirePairs(BuiltQuery)[2].value

\* C19: in a signed webhook URL the sign parameter on the wire is the base64
\* HMAC percent-encoded exactly once: decoding the wire value once yields the
\* base64 HMAC-SHA256 of timestamp, newline, secret.
C19_EncodedOnce ==
    (Built /\ fn_input.signed) =>
        percent_decoded(WireSign) = Base64Hmac(WireTimestamp, fn_input.secret)

\* C19, what holds: the sign parameter on the wire is the base64 HMAC
\* percent-encoded twice; decoding it once yields the percent-encoded
\* base64 text.
C19_EncodedTwice ==
    (Built /\ fn_input.signed) =>
        /\ percent_decoded(percent_decoded(WireSign)) =
               Base64Hmac(WireTimestamp, fn_input.secret)
        /\ percent_decoded(WireSign) # Base64Hmac(WireTimestamp, fn_input.secret)

\* C19: a signed webhook URL was built whose sign parameter ends with %253D
\* on the wire, the twice-encoded padding of the base64 text.
C19_Witness ==
    /\ Built
    /\ fn_input.signed
    /\ Len(WireSign) > 5
    /\ SubSeq(WireSign, Len(WireSign) - 4, Len(WireSign)) =
           <<"%", "2", "5", "3", "D">>

----------------------------------------------------------------------------
(* Claims about a whole API call, checked under SendSpec.                   *)

\* A send has ended.
SendEnded == call.pc = "idle" /\ call.service # "none"

\* A stage of the send that ended has failed: the clock read or the token
\* issuance (no business request was sent), the HTTP call (no response was
\* handed over), or the business-code check (the answer has an errcode
\* other than 0).
StageFailed ==
    \/ call.business_requests = 0
    \/ ~IsSome(call.response)
    \/ ~Unwrap(call.response).handed
    \/ (IsSome(AnsweredErrcode) /\ Unwrap(AnsweredErrcode) # 0)

\* Not more than one token-issuance request and one business request.
NoRetry == call.token_requests <= 1 /\ call.business_requests <= 1

\* C20: a send in which a stage fails ends with exactly one Error returned
\* to the caller (and a send in which none fails with a value), and one
\* send issues at most one token-issuance request and at most one business
\* request.
C20_OneError ==
    /\ NoRetry
    /\ SendEnded =>
        /\ IsSome(call.result)
        /\ ~Unwrap(call.result).panicked
        /\ Unwrap(call.result).value.ok = ~StageFailed

\* C20, leaving out the sends that panicked while the snippet of a business
\* failure was produced: all others end with exactly one Error when a stage
\* failed, and no send issues a request twice.
C20_OneErrorUnlessAborted ==
    /\ NoRetry
    /\ SendEnded =>
        /\ IsSome(call.result)
        /\ ~Unwrap(call.result).panicked
               => Unwrap(call.result).value.ok = ~StageFailed
        /\ Unwrap(call.result).panicked
               => (/\ SendAnswered
                   /\ IsSome(AnsweredErrcode)
                   /\ Unwrap(AnsweredErrcode) # 0)

\* C20: an enterprise send issued one token request and one business
\* request, the business-code check failed, and the send panicked instead
\* of returning an Error.
C20_Witness ==
    /\ SendEnded
    /\ call.service = "enterprise"
    /\ call.token_requests = 1
    /\ call.business_requests = 1
    /\ StageFailed
    /\ Unwrap(call.result).panicked

\* C20: a webhook send with a secret ended with Error::Timestamp without
\* any request.
C20_ClockFailed ==
    /\ SendEnded
    /\ call.business_requests = 0
    /\ call.token_requests = 0
    /\ Unwrap(call.result) = Returned(Err([variant |-> "Timestamp"]))

----------------------------------------------------------------------------
(* Claims about the retry configuration, checked under BuildSpec.           *)

\* The RetryConfig the client was built with, if it was built with one.
AttachedRetryConfig ==
    IF IsSome(client) THEN Unwrap(client).built_from.retry_config ELSE None

\* Both HTTP clients of the built client were given `limit` as the maximum
\* of attempts, and the request under way has not had more.
AttemptsLimitedTo(limit) ==
    /\ Unwrap(client).webhook_http.retry_policy # None
    /\ Unwrap(Unwrap(client).webhook_http.retry_policy).max_attempts = limit
    /\ Unwrap(client).enterprise_http.retry_policy # None
    /\ Unwrap(Unwrap(client).enterprise_http.retry_policy).max_attempts = limit
    /\ attempts <= limit

\* A built client stays as it was built, whatever is done to the builder.
ClientFrozen == IsSome(client) => client' = client

\* C21 as stated: a RetryConfig attached to a client gives the collaborator
\* a maximum of max_retries + 1 attempts, for every max_retries; the
\* configuration of a built client does not change.
C21_PlusOne ==
    /\ [](IsSome(AttachedRetryConfig) =>
            AttemptsLimitedTo(Unwrap(AttachedRetryConfig).max_retries + 1))
    /\ [][ClientFrozen]_vars

\* C21, amended: a RetryConfig attached to a client gives the collaborator
\* a maximum of max_retries + 1 attempts, or usize::MAX attempts when
\* max_retries is usize::MAX; the configuration of a built client does not
\* change.
C21_Attempts ==
    /\ [](IsSome(AttachedRetryConfig) =>
            AttemptsLimitedTo(
                IF Unwrap(AttachedRetryConfig).max_retries < UsizeMax
                THEN Unwrap(AttachedRetryConfig).max_retries + 1
                ELSE UsizeMax))
    /\ [][ClientFrozen]_vars

\* C21: a client built with max_retries = 2 has had three attempts made for
\* one request, and the builder has since been set to other values.
C21_Witness ==
    /\ IsSome(AttachedRetryConfig)
    /\ Unwrap(AttachedRetryConfig).max_retries = 2
    /\ attempts = 3
    /\ builder.retry_config # AttachedRetryConfig

\* C21: a client was built with max_retries = usize::MAX.
C21_Saturated ==
    /\ IsSome(AttachedRetryConfig)
    /\ Unwrap(AttachedRetryConfig).max_retries = UsizeMax
    /\ Unwrap(Unwrap(client).webhook_http.retry_policy).max_attempts = UsizeMax

----------------------------------------------------------------------------
(* Claims about reply_message, checked under ReplySpec.                     *)

\* reply_message, async or blocking, was applied.
Replied ==
    IsSome(fn_output)
    /\ Unwrap(fn_output).fn \in {"reply_message", "blocking reply_message"}

\* conversationType is the string "1" or the number 1.
PrivateChat ==
    fn_input.conversationType \in {Some([kind |-> "string", holds |-> "1"]),
                                   Some([kind |-> "integer", holds |-> 1])}

\* conversationType is the string "1".
PrivateChatAsString ==
    fn_input.conversationType = Some([kind |-> "string", holds |-> "1"])

\* The field is there and holds a string.
HoldsString(field) == IsSome(field) /\ Unwrap(field).kind = "string"

\* reply_message sends a one-to-one message to senderStaffId when the
\* callback is private, a group message to conversationId otherwise, and
\* fails with InvalidConfig when the field it needs is missing.
ReplyContract(private) ==
    Replied =>
        LET r == Unwrap(fn_output).result
            needed == IF private THEN fn_input.senderStaffId
                      ELSE fn_input.conversationId
        IN  IF ~HoldsString(needed)
            THEN ~r.ok /\ r.error.variant = "InvalidConfig"
            ELSE /\ r.ok
                 /\ r.value =
                        IF private
                        THEN [segments |-> OTO_SEGMENTS,
                              request |-> [user_ids |->
                                  <<Unwrap(fn_input.senderStaffId).holds>>]]
                        ELSE [segments |-> GROUP_SEGMENTS,
                              request |-> [open_conversation_id |->
                                  Unwrap(fn_input.conversationId).holds]]

\* C22: reply_message sends a one-to-one message to senderStaffId exactly
\* when conversationType is the string "1" or the number 1 (which is what
\* is_private_conversation decides), a group message to conversationId
\* otherwise, and fails with InvalidConfig when the field it needs is
\* missing.
C22_Reply ==
    /\ Applied("is_private_conversation")
           => (Unwrap(fn_output).result <=> PrivateChat)
    /\ ReplyContract(PrivateChat)

\* C22, what holds: reply_message takes the private branch exactly when
\* conversationType is the string "1"; the number 1 gets a group message.
C22_ReplyStringOnly == ReplyContract(PrivateChatAsString)

\* C22: reply_message was applied to a callback with conversationType the
\* number 1, a senderStaffId and a conversationId, and handed a group
\* message to the send.
C22_Witness ==
    /\ Replied
    /\ fn_input.conversationType = Some([kind |-> "integer", holds |-> 1])
    /\ HoldsString(fn_input.senderStaffId)
    /\ HoldsString(fn_input.conversationId)
    /\ Unwrap(fn_output).result.ok
    /\ Unwrap(fn_output).result.value.segments = GROUP_SEGMENTS

----------------------------------------------------------------------------
(* Claims about the Display of Api errors, checked under DisplaySpec.       *)

\* C23: two Api errors that differ only in body_snippet have the same
\* Display text; the text contains the business message and not the
\* snippet; body_snippet() returns the snippet each error retains.
C23_DisplayIndependent ==
    /\ Applied("to_string") =>
        LET o == Unwrap(fn_output)
        IN  /\ o.result = o.other
            /\ Contains(o.result, fn_input.message)
            /\ IsSome(fn_input.body_snippet)
                   => ~Contains(o.result, Unwrap(fn_input.body_snippet))
    /\ Applied("body_snippet") =>
        /\ Unwrap(fn_output).result = fn_input.body_snippet
        /\ Unwrap(fn_output).other = fn_input.other_snippet

\* C23: Display was applied to two Api errors with the message "invalid",
\* one retaining a snippet and one retaining none.
C23_Witness ==
    /\ Applied("to_string")
    /\ fn_input.message = <<"i", "n", "v", "a", "l", "i", "d">>
    /\ IsSome(fn_input.body_snippet)
    /\ fn_input.other_snippet = None
    /\ Unwrap(fn_output).result = Unwrap(fn_output).other

\* C23: body_snippet() was read from an error that retains a snippet.
C23_Retained ==
    /\ Applied("body_snippet")
    /\ IsSome(Unwrap(fn_output).result)
    /\ Unwrap(fn_output).result # Unwrap(fn_output).other

----------------------------------------------------------------------------
(* Claims about the order of requests in an enterprise call, checked under  *)
(* SendSpec.                                                                *)

\* The token the server issues in answer to the issuance request of the
\* send under way or last completed.
IssuedInThisCall == <<"token", IF call.pc = "idle" THEN call.n - 1 ELSE call.n>>

GetTokenRequest == [to |-> "gettoken"]

BusinessRequest(token) == [to |-> "business", token |-> token]

\* C24: in an enterprise call a fresh cached token means no issuance
\* request, the business request carrying the cached token; otherwise
\* exactly one issuance request goes first and the business request carries
\* the token issued in answer to it; when the issuance fails no business
\* request is sent.
C24_TokenFirst ==
    call.service = "enterprise" =>
        /\ call.sent # <<>>
        /\ IF call.sent[1] = GetTokenRequest
           THEN /\ ~IsSome(call.cached)
                /\ call.pc = "awaiting_token" =>
                      /\ call.sent = <<GetTokenRequest>>
                      /\ cache_access_token =>
                            CacheGet(inner, refresh_margin, now) = None
                /\ call.pc # "awaiting_token" =>
                      \/ /\ call.sent = <<GetTokenRequest>>
                         /\ call.pc = "idle"
                         /\ ~Unwrap(call.result).value.ok
                      \/ call.sent = <<GetTokenRequest,
                                       BusinessRequest(IssuedInThisCall)>>
           ELSE /\ IsSome(call.cached)
                /\ call.sent = <<BusinessRequest(Unwrap(call.cached))>>
                /\ call.pc = "awaiting" =>
                      /\ cache_access_token
                      /\ CacheGet(inner, refresh_margin, now) = call.cached

\* C24: an enterprise send found a fresh token in the cache, which an
\* earlier send had obtained, and sent the business request with it and no
\* issuance request.
C24_Witness ==
    /\ call.service = "enterprise"
    /\ call.n = 1
    /\ call.pc = "awaiting"
    /\ call.sent = <<BusinessRequest(<<"token", 0>>)>>

\* C24: an enterprise send found a stale token in the cache and sent an
\* issuance request, then the business request with the new token.
C24_Refreshed ==
    /\ call.service = "enterprise"
    /\ call.n = 1
    /\ call.pc = "awaiting"
    /\ cache_access_token
    /\ call.sent = <<GetTokenRequest, BusinessRequest(<<"token", 1>>)>>

\* C24: the issuance failed and the send ended without a business request.
C24_IssuanceFailed ==
    /\ call.service = "enterprise"
    /\ call.pc = "idle"
    /\ call.sent = <<GetTokenRequest>>
    /\ ~Unwrap(call.result).value.ok

----------------------------------------------------------------------------
(* Claims about callers refreshing one cache at the same time, checked      *)
(* under Spec.                                                              *)

\* Thread t ended a call that sent an issuance request and was given a token.
Refreshed(t) ==
    /\ calls[t].pc = "idle"
    /\ calls[t].requests = 1
    /\ IsSome(calls[t].result)
    /\ Unwrap(calls[t].result).ok

\* The token the server issued to the call thread t ended last.
OwnToken(t) == [for |-> <<t, calls[t].n - 1>>, via |-> calls[t].h]

\* In this step thread t is given a token and its handle has a cache.
StoresNow(t) ==
    /\ calls[t].pc = "gettoken_sent"
    /\ calls'[t].pc = "idle"
    /\ Unwrap(calls'[t].result).ok
    /\ IsSome(services[calls[t].h].cache)

\* A caller that found no fresh token has its own request in flight, and a
\* caller that was issued a token returns that token.
OwnRequestOwnToken ==
    \A t \in Threads :
        /\ calls[t].pc = "gettoken_sent" => calls[t].requests = 1
        /\ Refreshed(t) => Unwrap(calls[t].result).value = OwnToken(t)

\* Every store overwrites the shared entry with the storing caller's token
\* and the expiry computed at that store, and nothing else writes an entry.
LastWriterWins ==
    /\ \A t \in Threads :
          StoresNow(t) =>
              LET c == Unwrap(services[calls[t].h].cache)
              IN  /\ \E e \in SvcExpiresIn :
                        caches'[c] = StoredEntry(IssuedToken(t), e, now)
                  /\ Unwrap(calls'[t].result).value = IssuedToken(t)
                  /\ \A d \in DOMAIN caches \ {c} : caches'[d] = caches[d]
    /\ (\A t \in Threads : ~StoresNow(t)) =>
          \A d \in DOMAIN caches : caches'[d] = caches[d]

\* C25: concurrent refreshes are not deduplicated and the last writer wins:
\* each caller that finds the shared cache empty or stale sends its own
\* issuance request and returns the token issued to it, and each store
\* replaces the entry by that caller's token and expiry, so the cache holds
\* what the last store wrote.
C25_LastWriterWins == [](OwnRequestOwnToken) /\ [][LastWriterWins]_vars

\* C25: two callers on handles sharing one cache both had a request in
\* flight, both were issued a token and returned their own, and the cache
\* holds the token of t1 although t2 stored too.
C25_Witness ==
    /\ Refreshed("t1")
    /\ Refreshed("t2")
    /\ calls["t1"].h # calls["t2"].h
    /\ services[calls["t1"].h].cache = services[calls["t2"].h].cache
    /\ IsSome(Entry(calls["t1"].h))
    /\ Unwrap(Entry(calls["t1"].h)).token = OwnToken("t1")
    /\ Unwrap(calls["t2"].result).value = OwnToken("t2")
    /\ now = 1

\* C25: two callers of one cache have their issuance requests in flight at
\* the same time.
C25_BothInFlight ==
    /\ calls["t1"].pc = "gettoken_sent"
    /\ calls["t2"].pc = "gettoken_sent"
    /\ IsSome(services[calls["t1"].h].cache)
    /\ services[calls["t1"].h].cache = services[calls["t2"].h].cache

----------------------------------------------------------------------------
(* Claims about the lock and the HTTP calls, checked under CallSpec.        *)

\* Thread t holds the read or the write lock of the cache.
HoldsLock(t) == t \in lock.readers \/ lock.writer = Some(t)

\* Every other caller is idle or waits for the answer to an HTTP call.
OthersIdleOrInFlight(t) ==
    \A u \in Threads \ {t} : th[u].pc \in HttpInFlight \cup {"idle"}

\* C26: no caller holds the cache's read or write lock while one of its
\* HTTP calls (token issuance or business) is in flight; the lock is held
\* only inside get and store; and a caller asking for the lock in get or
\* store is granted it whenever the other callers are idle or waiting for
\* an HTTP answer, however long that answer takes.
C26_NoLockAcrossHttp ==
    \A t \in Threads :
        /\ th[t].pc \in HttpInFlight => ~HoldsLock(t)
        /\ t \in lock.readers => th[t].pc = "get_check"
        /\ lock.writer = Some(t) => th[t].pc \in {"store_write", "store_unlock"}
        /\ (th[t].pc = "get_lock" /\ OthersIdleOrInFlight(t)) =>
              ReadLockFree(lock)
        /\ (th[t].pc = "store_lock" /\ OthersIdleOrInFlight(t)) =>
              WriteLockFree(lock)

\* C26: t1 waits for the answer to its issuance request, which it sent
\* after get released the lock, while t2 asks for the write lock in store.
C26_Witness ==
    /\ th["t1"].pc = "gettoken_sent"
    /\ th["t2"].pc = "store_lock"
    /\ th["t1"].calls = 1

\* C26: t1 waits for the answer to its business request while t2 holds the
\* read lock in get.
C26_GetWhileInFlight ==
    /\ th["t1"].pc = "business_sent"
    /\ th["t2"].pc = "get_check"
    /\ "t2" \in lock.readers

----------------------------------------------------------------------------
(* Claims about the expiry of cached entries over a whole run, checked      *)
(* under CacheSpec.                                                         *)

\* This step is a store.
StoreStep == ops'[1].op = "store" /\ (ops' # ops \/ inner' # inner)

\* The entry after this step expires ttl after the step's instant.
ExpiresAfter(ttl) == inner' # None /\ inner'[1].expires_at = now + ttl

\* C27 as stated: every store, whatever expires_in the server reports,
\* leaves an entry that expires at the store instant plus the reported TTL
\* clamped up to 30 s, or plus 7200 s, never less than 30 s after the store;
\* and only a store writes the entry.
C27_Original ==
    [][/\ StoreStep =>
             /\ ExpiresAfter(ContractTtl(ops'[1].expires_in))
             /\ inner'[1].expires_at >= now + MIN_ACCESS_TOKEN_TTL
       /\ ~StoreStep => inner' = inner]_vars

\* A cached entry's expiry is that of some store made up to now: the store
\* instant plus the clamped or default TTL, or the store instant itself
\* when the sum is not representable.
DerivedExpiry ==
    inner # None =>
        \E at \in 1..now : \E e \in ExpiresInValues :
            inner[1].expires_at =
                (IF at + ContractTtl(e) <= InstantMax
                 THEN at + ContractTtl(e) ELSE at)

\* C27 (amended): every store leaves an entry that expires at the store
\* instant plus the reported TTL clamped up to 30 s, or plus 7200 s when
\* none or a non-positive one is reported, hence at least 30 s after the
\* store, unless that sum is not representable as an Instant, in which case
\* the entry expires at the store instant; only a store writes the entry.
C27_ExpiryDerived ==
    /\ [](DerivedExpiry)
    /\ [][/\ StoreStep =>
                IF now + ContractTtl(ops'[1].expires_in) <= InstantMax
                THEN /\ ExpiresAfter(ContractTtl(ops'[1].expires_in))
                     /\ inner'[1].expires_at >= now + MIN_ACCESS_TOKEN_TTL
                ELSE ExpiresAfter(0)
          /\ ~StoreStep => inner' = inner]_vars

\* C27: after the clock advanced, a store of the largest expires_in left an
\* entry that expires at the store instant, less than 30 s after the store.
C27_Witness ==
    /\ ops[1].op = "store"
    /\ ops[1].expires_in = Some(I64Max)
    /\ ops[1].at > 1
    /\ inner # None
    /\ inner[1].expires_at = ops[1].at

\* C27: an entry stored with a TTL below the floor is still held, a later
\* get having been made, and expires 30 s after its store.
C27_Clamped ==
    /\ ops[1].op = "get"
    /\ ops[2].op = "store"
    /\ ops[2].expires_in = Some(1)
    /\ ops[1].at > ops[2].at
    /\ inner # None
    /\ inner[1].expires_at = ops[2].at + MIN_ACCESS_TOKEN_TTL

----------------------------------------------------------------------------
(* Claims about what changes the cached entry, checked under SendSpec.      *)

\* The send that ended last returned the error variant v.
EndedWith(v) ==
    /\ call.pc = "idle"
    /\ IsSome(call.result)
    /\ ~Unwrap(call.result).panicked
    /\ ~Unwrap(call.result).value.ok
    /\ Unwrap(call.result).value.error.variant = v

\* One step of a run: the entry is written only when an issuance succeeds,
\* and then with the token issued; a failed issuance and the end of a
\* business call leave it as it was; an enterprise send started while the
\* entry is fresh carries the entry's token.
EntryFrame ==
    /\ inner' # inner =>
          /\ call.pc = "awaiting_token"
          /\ call'.pc = "awaiting"
          /\ inner' # None
          /\ inner'[1].token = <<"token", call.n>>
          /\ call'.sent[2] = BusinessRequest(<<"token", call.n>>)
    /\ (call.pc = "awaiting_token" /\ call'.pc = "idle") =>
          /\ inner' = inner
          /\ ~Unwrap(call'.result).value.ok
    /\ (call.pc = "awaiting" /\ call'.pc = "idle") => inner' = inner
    /\ (/\ call.pc = "idle"
        /\ call'.pc # "idle"
        /\ call'.service = "enterprise"
        /\ cache_access_token
        /\ IsSome(CacheGet(inner, refresh_margin, now))) =>
          /\ inner' = inner
          /\ call'.sent = <<BusinessRequest(inner[1].token)>>

\* C28: the cached entry changes only on a successful token issuance: a
\* failing get_access_token (transport error, errcode other than 0, no
\* access_token) and a failing business call of any kind, an Auth failure
\* included, leave it unchanged, and the same token is sent again while
\* the entry is fresh.
C28_EntryFrame == [][EntryFrame]_vars

\* C28: an enterprise send that used the cached token ended with an Auth
\* error and the cache still holds that token.
C28_Witness ==
    /\ call.service = "enterprise"
    /\ EndedWith("Auth")
    /\ IsSome(call.cached)
    /\ inner # None
    /\ inner[1].token = Unwrap(call.cached)
    /\ call.sent = <<BusinessRequest(inner[1].token)>>

\* C28: an issuance answered without access_token ended the send with the
\* Api error of code -1 while the cache held a stale entry, which is still
\* there.
C28_IssuanceFailed ==
    /\ call.service = "enterprise"
    /\ EndedWith("Api")
    /\ Unwrap(call.result).value.error.code = -1
    /\ call.sent = <<GetTokenRequest>>
    /\ cache_access_token
    /\ inner # None

----------------------------------------------------------------------------
(* Claims about the validity of cached tokens at the server, checked under  *)
(* ValiditySpec.                                                            *)

\* How long the server honours a token: the expires_in it reported, and the
\* client's default when it reported none.
ServerLifetime(e) == IF IsSome(e) THEN Unwrap(e) ELSE DEFAULT_ACCESS_TOKEN_TTL

\* The last get_access_token returned a token from the cache.
ReturnedFromCache ==
    /\ calls.pc = "idle"
    /\ calls.from_cache
    /\ IsSome(calls.result)

\* The token the last get_access_token returned was valid at the server
\* when it was returned.
StillValid ==
    LET token == Unwrap(calls.result)
    IN  calls.at < token.issued_at + ServerLifetime(token.expires_in)

\* C29: whenever get_access_token returns a token from the cache, the
\* current time is earlier than the token's issue time plus the expires_in
\* the server reported, for every margin, every expires_in and every delay
\* between the issue and the store.
C29_CachedTokenValid == ReturnedFromCache => StillValid

\* What the code does guarantee: a token from the cache is valid at the
\* server when the reported expires_in is not below the floor and the store
\* came no later after the issue than the refresh margin.
C29_ValidWithinMargin ==
    ReturnedFromCache =>
        LET token == Unwrap(calls.result)
            ttl == normalize_token_ttl(token.expires_in)
            stored_at == Unwrap(inner).expires_at - ttl
        IN  (/\ ServerLifetime(token.expires_in) >= MIN_ACCESS_TOKEN_TTL
             /\ stored_at - token.issued_at <= refresh_margin) => StillValid

\* C29: a token reported with expires_in = 1, stored in the instant of its
\* issue, is returned from the cache 29 s later with margin 0.
C29_Witness ==
    /\ ReturnedFromCache
    /\ refresh_margin = 0
    /\ Unwrap(calls.result).expires_in = Some(1)
    /\ Unwrap(calls.result).issued_at = 1
    /\ Unwrap(inner).expires_at = 1 + MIN_ACCESS_TOKEN_TTL
    /\ calls.at = 30
    /\ ~StillValid

\* C29: a token reported with expires_in = 60 and stored 30 s after its
\* issue is returned from the cache 60 s after the issue with margin 0.
C29_Delayed ==
    /\ ReturnedFromCache
    /\ refresh_margin = 0
    /\ Unwrap(calls.result).expires_in = Some(60)
    /\ Unwrap(inner).expires_at - 60 > Unwrap(calls.result).issued_at
    /\ ~StillValid

----------------------------------------------------------------------------
(* Claims about the totality of redact_text, checked under RedactSpec.      *)

\* redact_text was applied and did not return.
RedactAborted ==
    /\ Applied("redact_text")
    /\ Unwrap(fn_output).result.panicked

\* C30: redact_text is total: applied to any text, with multi-byte chars at
\* or inside the window after a key or with chars whose lowercase form has
\* another byte length, it returns a result and never aborts.
C30_Total == Applied("redact_text") => ~Unwrap(fn_output).result.panicked

\* C30: redact_text aborted on a text that holds a key and a char whose
\* lowercase form is longer in bytes than the char, the offsets found in
\* the lowercased copy not being char boundaries of the text.
C30_Witness ==
    /\ RedactAborted
    /\ ChangesLength(fn_input.text)
    /\ \E i \in 1..Len(SENSITIVE_KEYS) :
          IsSome(find(to_lowercase(fn_input.text), SENSITIVE_KEYS[i]))

\* C30: redact_text aborted on a text whose lowercase form keeps every
\* byte offset: the 32-byte window after the key ends inside a multi-byte
\* char.
C30_WindowSplit ==
    /\ RedactAborted
    /\ ~ChangesLength(fn_input.text)
    /\ str_len(fn_input.text) > 32
    /\ \E k \in 1..Len(fn_input.text) : len_utf8(fn_input.text[k]) > 1

\* C30, for the texts of one-byte chars: on these redact_text returns.
C30_TotalOnAscii ==
    (/\ Applied("redact_text")
     /\ \A k \in 1..Len(fn_input.text) : len_utf8(fn_input.text[k]) = 1)
        => ~Unwrap(fn_output).result.panicked

====
